---------------------------- MODULE Spec2Model ----------------------------
(***************************************************************************)
(* A model of the "monkey" interpreter (ManuelGarciaF/go-interpreter):     *)
(* the scanner (lexer), the Pratt parser, the AST printer, the environment *)
(* and the tree-walking evaluator.                                         *)
(*                                                                         *)
(* Source text is a sequence of one-character strings.  Token literals,    *)
(* identifier names and operators are such sequences too ("==" is          *)
(* <<"=","=">>), so that printing an AST and scanning the printed text     *)
(* again are real conversions.  A TokenType is represented by the name     *)
(* token.TokenType.String() gives it.                                      *)
(***************************************************************************)
EXTENDS Integers, Sequences, FiniteSets, TLC

(***************************************************************************)
(* Bounds of the model.                                                    *)
(***************************************************************************)
\* number of lexemes of an expression line (SpecExpr)
MaxLexemes == 6
\* number of statement chunks of a program line (SpecStmt)
MaxChunks == 3
\* the units of a line of SpecOperators
MaxOperatorUnits == 3
\* the statements of a line of SpecClosures
MaxStatements == 5
\* the statements of a line of SpecReturns
MaxReturnStatements == 4
\* the depth of the conditionals around a return (SpecReturns)
MaxReturnDepth == 2
\* the statements of a line of SpecLets
MaxLetStatements == 4
\* the hashable objects allocated (SpecHashKeys)
MaxObjects == 3
\* the arguments of a call of a built-in function (SpecLen)
MaxArguments == 2
\* the lexemes in the place of a parameter list (SpecFunctions)
MaxParameterLexemes == 3
\* the units of a source text of SpecScanner
MaxScannerUnits == 3
\* the calls of NextToken on one Lexer (SpecScanner)
MaxTokens == 6
\* the lines of a session (SpecSession)
MaxLines == 3
\* the call statements of a line of SpecCalls
MaxCallStatements == 2
\* the statements of a line of SpecBlocks
MaxBlockStatements == 3
\* the expressions and operators of a line of SpecBooleans
MaxBooleanUnits == 3
\* the statements of a line of SpecRecursion
MaxRecursionStatements == 3
\* the elements of the first array (SpecArrays)
MaxArrayLen == 2
\* the calls of push and tail (SpecArrays)
MaxArrayCalls == 3

(***************************************************************************)
(* Characters.                                                             *)
(***************************************************************************)
\* lexer.EOF, the byte 0
LexerEOF == "NUL"

Letters ==
  {"a","b","c","d","e","f","g","h","i","j","k","l","m","n","o","p","q","r",
   "s","t","u","v","w","x","y","z",
   "A","B","C","D","E","F","G","H","I","J","K","L","M","N","O","P","Q","R",
   "S","T","U","V","W","X","Y","Z"}

Digits == {"0","1","2","3","4","5","6","7","8","9"}

isLetter(ch) == ch \in Letters

isDigit(ch) == ch \in Digits

isValidInIdentifier(ch) == isLetter(ch) \/ ch = "_" \/ isDigit(ch)

(***************************************************************************)
(* Tokens.                                                                 *)
(***************************************************************************)
NewToken(tt, l) == [Type |-> tt, Literal |-> l]

keywords ==
  [fn |-> "FUNCTION", let |-> "LET", if |-> "IF", else |-> "ELSE",
   return |-> "RETURN", true |-> "TRUE", false |-> "FALSE"]

KW_fn     == <<"f","n">>
KW_let    == <<"l","e","t">>
KW_if     == <<"i","f">>
KW_else   == <<"e","l","s","e">>
KW_return == <<"r","e","t","u","r","n">>
KW_true   == <<"t","r","u","e">>
KW_false  == <<"f","a","l","s","e">>

\* The keys "==" and "!=" of the keywords map never reach LookupIdentifier:
\* an identifier consists of letters, digits and underscores.
LookupIdentifier(identifier) ==
  CASE identifier = KW_fn     -> keywords.fn
    [] identifier = KW_let    -> keywords.let
    [] identifier = KW_if     -> keywords.if
    [] identifier = KW_else   -> keywords.else
    [] identifier = KW_return -> keywords.return
    [] identifier = KW_true   -> keywords.true
    [] identifier = KW_false  -> keywords.false
    [] OTHER                  -> "IDENTIFIER"

(***************************************************************************)
(* The scanner.  A Lexer is [input, position, readPosition, ch]; positions *)
(* are the 0-based positions of the code.                                  *)
(***************************************************************************)
\* the mutant of readChar: past the end the cursor goes back to the start
readCharAround(l) ==
  [l EXCEPT !.ch = IF l.readPosition >= Len(l.input)
                   THEN LexerEOF
                   ELSE l.input[l.readPosition + 1],
            !.position = l.readPosition,
            !.readPosition = IF l.readPosition >= Len(l.input) THEN 0
                             ELSE l.readPosition + 1]

readChar(l) ==
  [l EXCEPT !.ch = IF l.readPosition >= Len(l.input)
                   THEN LexerEOF
                   ELSE l.input[l.readPosition + 1],
            !.position = l.readPosition,
            !.readPosition = l.readPosition + 1]

NewLexer(input) ==
  readChar([input |-> input, position |-> 0, readPosition |-> 0,
            ch |-> LexerEOF])

peekChar(l) ==
  IF l.readPosition >= Len(l.input) THEN LexerEOF
  ELSE l.input[l.readPosition + 1]

RECURSIVE skipWhitespace(_)
skipWhitespace(l) ==
  IF l.ch = " " \/ l.ch = "\t" \/ l.ch = "\n" \/ l.ch = "\r"
  THEN skipWhitespace(readChar(l))
  ELSE l

RECURSIVE readWhile(_, _)
\* the loop "for cond(l.ch) { l.readChar() }" of readIdentifier/readNumber
readWhile(l, digitsOnly) ==
  IF (IF digitsOnly THEN isDigit(l.ch) ELSE isValidInIdentifier(l.ch))
  THEN readWhile(readChar(l), digitsOnly)
  ELSE l

\* l.input[from:to] of the code
Slice(input, from, to) == SubSeq(input, from + 1, to)

readIdentifier(l) ==
  LET End(l2) == [lit |-> Slice(l.input, l.position, l2.position), l |-> l2]
  IN  End(readWhile(l, FALSE))

readNumber(l) ==
  LET End(l2) == [lit |-> Slice(l.input, l.position, l2.position), l |-> l2]
  IN  End(readWhile(l, TRUE))

RECURSIVE readStringLoop(_, _)
readStringLoop(l, start) ==
  LET Next(l2) ==
        IF l2.ch = LexerEOF THEN [lit |-> <<>>, ok |-> FALSE, l |-> l2]
        ELSE readStringLoop(l2, start)
  IN  IF l.ch # "\"" THEN Next(readChar(l))
      ELSE [lit |-> Slice(l.input, start, l.position), ok |-> TRUE, l |-> l]

\* the mutant of readString: the end of the input closes the string
RECURSIVE readStringLoopToEnd(_, _)
readStringLoopToEnd(l, start) ==
  IF l.ch # "\"" /\ l.ch # LexerEOF
  THEN readStringLoopToEnd(readChar(l), start)
  ELSE [lit |-> Slice(l.input, start, l.position), ok |-> TRUE, l |-> l]

readStringToEnd(l) ==
  LET From(l1) == readStringLoopToEnd(l1, l1.position) IN From(readChar(l))

readString(l) ==
  LET From(l1) == readStringLoop(l1, l1.position) IN From(readChar(l))

\* the token of a one-character case of NextToken
SingleCharType(ch) ==
  CASE ch = "+" -> "PLUS"
    [] ch = "-" -> "MINUS"
    [] ch = "/" -> "SLASH"
    [] ch = "*" -> "ASTERISK"
    [] ch = "<" -> "LT"
    [] ch = ">" -> "GT"
    [] ch = "," -> "COMMA"
    [] ch = ";" -> "SEMICOLON"
    [] ch = ":" -> "COLON"
    [] ch = "(" -> "LPAREN"
    [] ch = ")" -> "RPAREN"
    [] ch = "{" -> "LBRACE"
    [] ch = "}" -> "RBRACE"
    [] ch = "[" -> "LBRACKET"
    [] ch = "]" -> "RBRACKET"
    [] OTHER    -> "ILLEGAL"

\* NextToken after skipWhitespace
NextTokenAt(l) ==
  LET Two(tt, l2) ==
        [tok |-> NewToken(tt, <<l.ch, l2.ch>>), l |-> readChar(l2)]
      Str(r) ==
        IF r.ok THEN [tok |-> NewToken("STRING", r.lit), l |-> readChar(r.l)]
        ELSE [tok |-> NewToken("EOF", <<>>), l |-> readChar(r.l)]
      Ident(r) == [tok |-> NewToken(LookupIdentifier(r.lit), r.lit), l |-> r.l]
      Number(r) == [tok |-> NewToken("INT", r.lit), l |-> r.l]
  IN  CASE l.ch = "=" ->
             IF peekChar(l) = "=" THEN Two("EQ", readChar(l))
             ELSE [tok |-> NewToken("ASSIGN", <<l.ch>>), l |-> readChar(l)]
        [] l.ch = "!" ->
             IF peekChar(l) = "=" THEN Two("NOT_EQ", readChar(l))
             ELSE [tok |-> NewToken("BANG", <<l.ch>>), l |-> readChar(l)]
        [] l.ch = "\"" -> Str(readString(l))
        [] l.ch = LexerEOF ->
             [tok |-> NewToken("EOF", <<>>), l |-> readChar(l)]
        [] isLetter(l.ch) -> Ident(readIdentifier(l))
        [] isDigit(l.ch) -> Number(readNumber(l))
        [] OTHER ->
             [tok |-> NewToken(SingleCharType(l.ch), <<l.ch>>),
              l |-> readChar(l)]

\* Returns [tok, l]: the token and the lexer after the call.
NextToken(l) == NextTokenAt(skipWhitespace(l))

(***************************************************************************)
(* AST nodes.  Nil is the nil interface value / nil pointer of Go.  A nil  *)
(* slice is modelled as the empty sequence: the code only ranges over,     *)
(* indexes and takes the length of slices, where nil and empty agree.      *)
(***************************************************************************)
Nil == [kind |-> "nil"]

IdentifierNode(tok) ==
  [kind |-> "Identifier", Token |-> tok, Value |-> tok.Literal]

LetStatementNode(tok, name, value) ==
  [kind |-> "LetStatement", Token |-> tok, Name |-> name, Value |-> value]

ReturnStatementNode(tok, value) ==
  [kind |-> "ReturnStatement", Token |-> tok, Value |-> value]

ExpressionStatementNode(tok, expression) ==
  [kind |-> "ExpressionStatement", Token |-> tok, Expression |-> expression]

IntegerLiteralNode(tok, value) ==
  [kind |-> "IntegerLiteral", Token |-> tok, Value |-> value]

BooleanNode(tok, value) ==
  [kind |-> "Boolean", Token |-> tok, Value |-> value]

PrefixExpressionNode(tok, right) ==
  [kind |-> "PrefixExpression", Token |-> tok, Operator |-> tok.Literal,
   Right |-> right]

InfixExpressionNode(tok, left, right) ==
  [kind |-> "InfixExpression", Token |-> tok, Left |-> left,
   Operator |-> tok.Literal, Right |-> right]

IfExpressionNode(tok, condition, consequence, alternative) ==
  [kind |-> "IfExpression", Token |-> tok, Condition |-> condition,
   Consequence |-> consequence, Alternative |-> alternative]

BlockStatementNode(tok, statements) ==
  [kind |-> "BlockStatement", Token |-> tok, Statements |-> statements]

FunctionLiteralNode(tok, parameters, body) ==
  [kind |-> "FunctionLiteral", Token |-> tok, Parameters |-> parameters,
   Body |-> body]

CallExpressionNode(tok, function, arguments) ==
  [kind |-> "CallExpression", Token |-> tok, Function |-> function,
   Arguments |-> arguments]

(***************************************************************************)
(* The parser.  A Parser is [l, errors, currToken, peekToken]; the model   *)
(* adds the field hang, set when the parser enters a loop it never leaves. *)
(* A parse function returns [node, p]: its result and the parser after it. *)
(***************************************************************************)
LOWEST      == 0
EQUALS      == 1
LESSGREATER == 2
SUM         == 3
PRODUCT     == 4
PREFIX      == 5
CALL        == 6

precedences ==
  [EQ |-> EQUALS, NOT_EQ |-> EQUALS, LT |-> LESSGREATER, GT |-> LESSGREATER,
   PLUS |-> SUM, MINUS |-> SUM, SLASH |-> PRODUCT, ASTERISK |-> PRODUCT,
   LPAREN |-> CALL]

\* the keys of p.prefixParseFns
PrefixTokenTypes ==
  {"IDENTIFIER", "INT", "BANG", "MINUS", "TRUE", "FALSE", "LPAREN", "IF",
   "FUNCTION"}

\* the keys of p.infixParseFns
InfixTokenTypes ==
  {"PLUS", "MINUS", "SLASH", "ASTERISK", "EQ", "NOT_EQ", "LT", "GT", "LPAREN"}

nextToken(p) ==
  LET Shift(r) ==
        [p EXCEPT !.currToken = p.peekToken, !.peekToken = r.tok, !.l = r.l]
  IN  Shift(NextToken(p.l))

NewParser(l) ==
  nextToken(nextToken([l |-> l, errors |-> <<>>,
                       currToken |-> NewToken("ILLEGAL", <<>>),
                       peekToken |-> NewToken("ILLEGAL", <<>>),
                       hang |-> FALSE]))

currTokenIs(p, tt) == p.currToken.Type = tt

peekTokenIs(p, tt) == p.peekToken.Type = tt

\* peekError that records nothing
peekErrorSilent(p, expected) == p

\* fmt.Sprintf("Expected next token to be %s, got %s", ...)
peekError(p, expected) ==
  [p EXCEPT !.errors = Append(@, <<"Expected next token to be ", expected,
                                   ", got ", p.peekToken.Type>>)]

\* fmt.Sprintf("No prefix parse function for %s", tt)
noPrefixParseFnError(p, tt) ==
  [p EXCEPT !.errors = Append(@, <<"No prefix parse function for ", tt>>)]

\* Returns [ok, p].
expectPeek(p, tt) ==
  IF ~peekTokenIs(p, tt)
  THEN [ok |-> FALSE, p |-> peekError(p, tt)]
  ELSE [ok |-> TRUE, p |-> nextToken(p)]

PrecedenceOf(tt) ==
  IF tt \in DOMAIN precedences THEN precedences[tt] ELSE LOWEST

currPrecedence(p) == PrecedenceOf(p.currToken.Type)

peekPrecedence(p) == PrecedenceOf(p.peekToken.Type)

(***************************************************************************)
(* strconv.ParseInt(literal, 10, 64) on a run of decimal digits: it fails  *)
(* exactly when the value exceeds 2^63 - 1.                                *)
(***************************************************************************)
DigitValue(ch) ==
  CASE ch = "0" -> 0 [] ch = "1" -> 1 [] ch = "2" -> 2 [] ch = "3" -> 3
    [] ch = "4" -> 4 [] ch = "5" -> 5 [] ch = "6" -> 6 [] ch = "7" -> 7
    [] ch = "8" -> 8 [] ch = "9" -> 9

RECURSIVE DigitsValue(_)
DigitsValue(lit) ==
  IF lit = <<>> THEN 0
  ELSE 10 * DigitsValue(SubSeq(lit, 1, Len(lit) - 1)) + DigitValue(lit[Len(lit)])

RECURSIVE StripZeros(_)
StripZeros(lit) ==
  IF Len(lit) > 1 /\ lit[1] = "0" THEN StripZeros(Tail(lit)) ELSE lit

MaxInt64Digits ==
  <<"9","2","2","3","3","7","2","0","3","6","8","5","4","7","7","5","8","0","7">>

RECURSIVE DigitsLeq(_, _)
\* a <= b for two digit runs of the same length
DigitsLeq(a, b) ==
  IF a = <<>> THEN TRUE
  ELSE IF DigitValue(a[1]) # DigitValue(b[1])
       THEN DigitValue(a[1]) < DigitValue(b[1])
       ELSE DigitsLeq(Tail(a), Tail(b))

ParseIntOk(lit) ==
  LET InRange(d) ==
        \/ Len(d) < Len(MaxInt64Digits)
        \/ Len(d) = Len(MaxInt64Digits) /\ DigitsLeq(d, MaxInt64Digits)
  IN  InRange(StripZeros(lit))

parseIdentifier(p) == [node |-> IdentifierNode(p.currToken), p |-> p]

parseIntegerLiteral(p) ==
  IF ~ParseIntOk(p.currToken.Literal)
  THEN [node |-> Nil,
        p |-> [p EXCEPT !.errors =
                 Append(@, <<"Could not parse ", p.currToken.Literal,
                             " as an integer">>)]]
  ELSE [node |-> IntegerLiteralNode(p.currToken,
                                    DigitsValue(p.currToken.Literal)),
        p |-> p]

parseBoolean(p) ==
  [node |-> BooleanNode(p.currToken, currTokenIs(p, "TRUE")), p |-> p]

RECURSIVE parseExpression(_, _)
RECURSIVE parseExpressionLoop(_, _, _)
RECURSIVE parsePrefixFn(_)
RECURSIVE parseInfixFn(_, _)
RECURSIVE parseStatement(_)
RECURSIVE parseBlockStatement(_)
RECURSIVE parseBlockLoop(_, _)
RECURSIVE parseCallArgumentsLoop(_, _)

\* "if p.peekTokenIs(token.SEMICOLON) { p.nextToken() }"
skipSemicolon(p) == IF peekTokenIs(p, "SEMICOLON") THEN nextToken(p) ELSE p

parseLetStatement(p) ==
  LET Value(name, r) ==
        [node |-> LetStatementNode(p.currToken, name, r.node),
         p |-> skipSemicolon(r.p)]
      Assign(name, e) ==
        IF ~e.ok THEN [node |-> Nil, p |-> e.p]
        ELSE Value(name, parseExpression(nextToken(e.p), LOWEST))
      Name(e) ==
        IF ~e.ok THEN [node |-> Nil, p |-> e.p]
        ELSE Assign(IdentifierNode(e.p.currToken), expectPeek(e.p, "ASSIGN"))
  IN  Name(expectPeek(p, "IDENTIFIER"))

parseReturnStatement(p) ==
  LET Value(r) ==
        [node |-> ReturnStatementNode(p.currToken, r.node),
         p |-> skipSemicolon(r.p)]
  IN  Value(parseExpression(nextToken(p), LOWEST))

\* The result is a non-nil *ast.ExpressionStatement also when parseExpression
\* returned nil.
parseExpressionStatement(p) ==
  LET Value(r) ==
        [node |-> ExpressionStatementNode(p.currToken, r.node),
         p |-> skipSemicolon(r.p)]
  IN  Value(parseExpression(p, LOWEST))

parseStatement(p) ==
  CASE p.currToken.Type = "LET"    -> parseLetStatement(p)
    [] p.currToken.Type = "RETURN" -> parseReturnStatement(p)
    [] OTHER                       -> parseExpressionStatement(p)

parseExpressionLoop(p, leftExp, precedence) ==
  LET Again(r) == parseExpressionLoop(r.p, r.node, precedence)
  IN  IF ~peekTokenIs(p, "SEMICOLON") /\ peekPrecedence(p) > precedence
      THEN IF p.peekToken.Type \notin InfixTokenTypes
           THEN [node |-> leftExp, p |-> p]
           ELSE Again(parseInfixFn(nextToken(p), leftExp))
      ELSE [node |-> leftExp, p |-> p]

parseExpression(p, precedence) ==
  LET Loop(r) == parseExpressionLoop(r.p, r.node, precedence)
  IN  IF p.currToken.Type \notin PrefixTokenTypes
      THEN [node |-> Nil, p |-> noPrefixParseFnError(p, p.currToken.Type)]
      ELSE Loop(parsePrefixFn(p))

parseGroupedExpression(p) ==
  LET Close(exp, e) ==
        IF ~e.ok THEN [node |-> Nil, p |-> e.p] ELSE [node |-> exp, p |-> e.p]
      Inner(r) == Close(r.node, expectPeek(r.p, "RPAREN"))
  IN  Inner(parseExpression(nextToken(p), LOWEST))

parsePrefixExpression(p) ==
  LET Right(r) ==
        [node |-> PrefixExpressionNode(p.currToken, r.node), p |-> r.p]
  IN  Right(parseExpression(nextToken(p), PREFIX))

\* parseInfixExpression with the right operand parsed one level lower
parseInfixExpressionLower(p, left) ==
  LET Right(r) ==
        [node |-> InfixExpressionNode(p.currToken, left, r.node), p |-> r.p]
  IN  Right(parseExpression(nextToken(p), currPrecedence(p) - 1))

parseInfixExpression(p, left) ==
  LET Right(r) ==
        [node |-> InfixExpressionNode(p.currToken, left, r.node), p |-> r.p]
  IN  Right(parseExpression(nextToken(p), currPrecedence(p)))

\* The loop "for !p.currTokenIs(token.RBRACE)" does not end once currToken
\* is EOF: NextToken returns EOF from then on, and every round appends a
\* diagnostic and a statement.  The model stops unrolling there and sets
\* p.hang; what is computed after that is never produced by the program.
parseBlockLoop(p, statements) ==
  LET Round(r) ==
        parseBlockLoop(nextToken(r.p),
                       IF r.node # Nil THEN Append(statements, r.node)
                       ELSE statements)
  IN  IF currTokenIs(p, "RBRACE") THEN [node |-> statements, p |-> p]
      ELSE IF currTokenIs(p, "EOF")
           THEN [node |-> statements, p |-> [p EXCEPT !.hang = TRUE]]
           ELSE Round(parseStatement(p))

parseBlockStatement(p) ==
  LET Block(r) == [node |-> BlockStatementNode(p.currToken, r.node), p |-> r.p]
  IN  Block(parseBlockLoop(nextToken(p), <<>>))

parseIfExpression(p) ==
  LET Alternative(condition, consequence, alt) ==
        [node |-> IfExpressionNode(p.currToken, condition, consequence,
                                   alt.node),
         p |-> alt.p]
      ElseBrace(condition, consequence, e) ==
        IF ~e.ok THEN [node |-> Nil, p |-> e.p]
        ELSE Alternative(condition, consequence, parseBlockStatement(e.p))
      Consequence(condition, cons) ==
        IF peekTokenIs(cons.p, "ELSE")
        THEN ElseBrace(condition, cons.node,
                       expectPeek(nextToken(cons.p), "LBRACE"))
        ELSE [node |-> IfExpressionNode(p.currToken, condition, cons.node,
                                        Nil),
              p |-> cons.p]
      Brace(condition, e) ==
        IF ~e.ok THEN [node |-> Nil, p |-> e.p]
        ELSE Consequence(condition, parseBlockStatement(e.p))
      CloseParen(condition, e) ==
        IF ~e.ok THEN [node |-> Nil, p |-> e.p]
        ELSE Brace(condition, expectPeek(e.p, "LBRACE"))
      Condition(c) == CloseParen(c.node, expectPeek(c.p, "RPAREN"))
      OpenParen(e) ==
        IF ~e.ok THEN [node |-> Nil, p |-> e.p]
        ELSE Condition(parseExpression(nextToken(e.p), LOWEST))
  IN  OpenParen(expectPeek(p, "LPAREN"))

RECURSIVE parseFunctionParametersLoop(_, _)
parseFunctionParametersLoop(p, identifiers) ==
  LET Next(p2) ==
        parseFunctionParametersLoop(p2,
          Append(identifiers, IdentifierNode(p2.currToken)))
  IN  IF peekTokenIs(p, "COMMA") THEN Next(nextToken(nextToken(p)))
      ELSE [node |-> identifiers, p |-> p]

\* Returns [node, p] where node is the slice of identifiers.
parseFunctionParameters(p) ==
  LET Close(identifiers, e) ==
        IF ~e.ok THEN [node |-> <<>>, p |-> e.p]
        ELSE [node |-> identifiers, p |-> e.p]
      Rest(r) == Close(r.node, expectPeek(r.p, "RPAREN"))
      First(p1) ==
        Rest(parseFunctionParametersLoop(p1, <<IdentifierNode(p1.currToken)>>))
  IN  IF peekTokenIs(p, "RPAREN") THEN [node |-> <<>>, p |-> nextToken(p)]
      ELSE First(nextToken(p))

parseFunctionLiteral(p) ==
  LET Body(parameters, b) ==
        [node |-> FunctionLiteralNode(p.currToken, parameters, b.node),
         p |-> b.p]
      Brace(parameters, e) ==
        IF ~e.ok THEN [node |-> Nil, p |-> e.p]
        ELSE Body(parameters, parseBlockStatement(e.p))
      Parameters(ps) == Brace(ps.node, expectPeek(ps.p, "LBRACE"))
      OpenParen(e) ==
        IF ~e.ok THEN [node |-> Nil, p |-> e.p]
        ELSE Parameters(parseFunctionParameters(e.p))
  IN  OpenParen(expectPeek(p, "LPAREN"))

parseCallArgumentsLoop(p, args) ==
  LET Next(r) == parseCallArgumentsLoop(r.p, Append(args, r.node))
  IN  IF peekTokenIs(p, "COMMA")
      THEN Next(parseExpression(nextToken(nextToken(p)), LOWEST))
      ELSE [node |-> args, p |-> p]

\* Returns [node, p] where node is the slice of arguments.
parseCallArguments(p) ==
  LET Close(args, e) ==
        IF ~e.ok THEN [node |-> <<>>, p |-> e.p]
        ELSE [node |-> args, p |-> e.p]
      Rest(r) == Close(r.node, expectPeek(r.p, "RPAREN"))
      First(a) == Rest(parseCallArgumentsLoop(a.p, <<a.node>>))
  IN  IF peekTokenIs(p, "RPAREN") THEN [node |-> <<>>, p |-> nextToken(p)]
      ELSE First(parseExpression(nextToken(p), LOWEST))

parseCallExpression(p, function) ==
  LET Arguments(r) ==
        [node |-> CallExpressionNode(p.currToken, function, r.node),
         p |-> r.p]
  IN  Arguments(parseCallArguments(p))

\* p.prefixParseFns[p.currToken.Type]()
parsePrefixFn(p) ==
  CASE p.currToken.Type = "IDENTIFIER" -> parseIdentifier(p)
    [] p.currToken.Type = "INT"        -> parseIntegerLiteral(p)
    [] p.currToken.Type \in {"BANG", "MINUS"} -> parsePrefixExpression(p)
    [] p.currToken.Type \in {"TRUE", "FALSE"} -> parseBoolean(p)
    [] p.currToken.Type = "LPAREN"     -> parseGroupedExpression(p)
    [] p.currToken.Type = "IF"         -> parseIfExpression(p)
    [] p.currToken.Type = "FUNCTION"   -> parseFunctionLiteral(p)

\* p.infixParseFns[p.currToken.Type](left)
parseInfixFn(p, left) ==
  IF p.currToken.Type = "LPAREN" THEN parseCallExpression(p, left)
  ELSE parseInfixExpression(p, left)

\* One round of the loop of ParseProgram: [statements, p, node] after it,
\* node being what parseStatement returned.
ParseProgramStep(p, statements) ==
  LET Round(r) ==
        [statements |-> IF r.node # Nil THEN Append(statements, r.node)
                        ELSE statements,
         p |-> nextToken(r.p),
         node |-> r.node]
  IN  Round(parseStatement(p))

RECURSIVE ParseProgramLoop(_, _)
ParseProgramLoop(p, statements) ==
  LET Next(r) == ParseProgramLoop(r.p, r.statements)
  IN  IF currTokenIs(p, "EOF") \/ p.hang
      THEN [statements |-> statements, p |-> p]
      ELSE Next(ParseProgramStep(p, statements))

\* Returns [statements, p]: program.Statements and the parser afterwards.
ParseProgram(p) == ParseProgramLoop(p, <<>>)

(***************************************************************************)
(* The textual form of the AST (the String methods).  Calling String on a  *)
(* nil child that the code does not check panics; the model writes the     *)
(* one-element text NilDeref for it, which is no source character.         *)
(***************************************************************************)
NilDeref == <<"<nil>">>

RECURSIVE String(_)
RECURSIVE StringAll(_)
RECURSIVE Join(_, _)

\* the concatenation of the String() of each node of a slice
StringAll(nodes) ==
  IF nodes = <<>> THEN <<>>
  ELSE String(Head(nodes)) \o StringAll(Tail(nodes))

\* strings.Join of the String() of each node of a slice
Join(nodes, sep) ==
  IF nodes = <<>> THEN <<>>
  ELSE IF Len(nodes) = 1 THEN String(nodes[1])
       ELSE String(nodes[1]) \o sep \o Join(Tail(nodes), sep)

String(node) ==
  CASE node.kind = "nil" -> NilDeref
    [] node.kind = "LetStatement" ->
         node.Token.Literal \o <<" ">> \o String(node.Name) \o <<" ","="," ">>
           \o (IF node.Value # Nil THEN String(node.Value) ELSE <<>>)
           \o <<";">>
    [] node.kind = "ReturnStatement" ->
         node.Token.Literal \o <<" ">>
           \o (IF node.Value # Nil THEN String(node.Value) ELSE <<>>)
           \o <<";">>
    [] node.kind = "ExpressionStatement" ->
         IF node.Expression # Nil THEN String(node.Expression) ELSE <<>>
    [] node.kind = "Identifier" -> node.Value
    [] node.kind = "IntegerLiteral" -> node.Token.Literal
    [] node.kind = "Boolean" -> node.Token.Literal
    [] node.kind = "PrefixExpression" ->
         <<"(">> \o node.Operator \o String(node.Right) \o <<")">>
    [] node.kind = "InfixExpression" ->
         <<"(">> \o String(node.Left) \o <<" ">> \o node.Operator \o <<" ">>
           \o String(node.Right) \o <<")">>
    [] node.kind = "IfExpression" ->
         <<"i","f"," ">> \o String(node.Condition) \o <<" ">>
           \o String(node.Consequence)
           \o (IF node.Alternative # Nil
               THEN <<"e","l","s","e"," ">> \o String(node.Alternative)
               ELSE <<>>)
    [] node.kind = "BlockStatement" ->
         <<"{">> \o StringAll(node.Statements) \o <<"}">>
    [] node.kind = "FunctionLiteral" ->
         <<"f","n","(">> \o Join(node.Parameters, <<",", " ">>) \o <<")">>
           \o String(node.Body)
    [] node.kind = "CallExpression" ->
         String(node.Function) \o <<"(">>
           \o Join(node.Arguments, <<",", " ">>) \o <<")">>

\* Program.String()
ProgramString(statements) == StringAll(statements)

(***************************************************************************)
(* Runtime values (package object).  A value is a record with its Type()   *)
(* in the field type.  TRUE, FALSE and NULL are the three process-wide     *)
(* instances; a function or return-value object carries the address it was *)
(* allocated at, so that comparing two references compares addresses.      *)
(* NilObject is the nil interface value; Panic is a run-time panic of the  *)
(* Go program, which ends it.                                              *)
(***************************************************************************)
NULL == [type |-> "NULL"]

\* a Boolean object is known by its address; TRUE and FALSE are the two
\* that the package allocates
ObjTRUE == [type |-> "BOOLEAN", Value |-> TRUE, addr |-> "TRUE"]

ObjFALSE == [type |-> "BOOLEAN", Value |-> FALSE, addr |-> "FALSE"]

NilObject == [type |-> "nil"]

Integer(value) == [type |-> "INTEGER", Value |-> value]

ReturnValue(value, addr) ==
  [type |-> "RETURN_VALUE", Value |-> value, addr |-> addr]

Function(parameters, body, env, addr) ==
  [type |-> "FUNCTION", Parameters |-> parameters, Body |-> body,
   Env |-> env, addr |-> addr]

\* fmt.Sprintf(format, a...): the format and its arguments, each argument a
\* sequence of strings (a type name is one string, a lexeme its characters)
newError(format, a) ==
  [type |-> "ERROR", Message |-> [format |-> format, a |-> a]]

Panic(message) == [type |-> "PANIC", Message |-> message]

NilDereference == Panic("invalid memory address or nil pointer dereference")

DivideByZero == Panic("integer divide by zero")

IndexOutOfRange == Panic("index out of range")

isError(o) == o.type = "ERROR"

\* the evaluation cannot go on: the program has panicked
Panicked(o) == o.type = "PANIC"

(***************************************************************************)
(* Environments.  The heap st holds the environments in st.envs; an        *)
(* environment reference is an index into it and 0 is the nil reference.   *)
(***************************************************************************)
NewEnvironment == [store |-> [n \in {} |-> NULL], outer |-> 0]

\* the mutant of NewEnclosedEnvironment: the environment created before the
\* new one loses its outer link
NewEnclosedEnvironmentRelinking(st, outer) ==
  [st EXCEPT !.envs =
     Append([e \in DOMAIN @ |->
               IF e = Len(@) /\ e > 1 THEN [@[e] EXCEPT !.outer = 0]
               ELSE @[e]],
            [NewEnvironment EXCEPT !.outer = outer])]

\* returns the heap with the new environment at index Len(st.envs) + 1
NewEnclosedEnvironment(st, outer) ==
  [st EXCEPT !.envs = Append(@, [NewEnvironment EXCEPT !.outer = outer])]

\* the mutant of Get: the outer environments are looked up first
RECURSIVE GetOuterFirst(_, _, _)
GetOuterFirst(envs, e, name) ==
  LET Outer(r) ==
        IF r.ok THEN r
        ELSE IF name \in DOMAIN envs[e].store
        THEN [obj |-> envs[e].store[name], ok |-> TRUE]
        ELSE [obj |-> NilObject, ok |-> FALSE]
  IN  IF envs[e].outer # 0 THEN Outer(GetOuterFirst(envs, envs[e].outer, name))
      ELSE Outer([obj |-> NilObject, ok |-> FALSE])

RECURSIVE Get(_, _, _)
Get(envs, e, name) ==
  IF name \in DOMAIN envs[e].store
  THEN [obj |-> envs[e].store[name], ok |-> TRUE]
  ELSE IF envs[e].outer # 0 THEN Get(envs, envs[e].outer, name)
  ELSE [obj |-> NilObject, ok |-> FALSE]

\* the mutant of Set: a name that an outer environment binds is overwritten
\* there
RECURSIVE SetWhereBound(_, _, _, _)
SetWhereBound(st, e, name, val) ==
  IF name \in DOMAIN st.envs[e].store \/ st.envs[e].outer = 0
  THEN [st EXCEPT !.envs[e].store =
          [n \in DOMAIN @ \cup {name} |-> IF n = name THEN val ELSE @[n]]]
  ELSE SetWhereBound(st, st.envs[e].outer, name, val)

Set(st, e, name, val) ==
  [st EXCEPT !.envs[e].store =
     [n \in DOMAIN @ \cup {name} |-> IF n = name THEN val ELSE @[n]]]

\* the heap of a new session: the global environment, no object allocated;
\* steps counts the calls of Eval; made, calls and lets are the history of
\* the function objects created, of the applications of functions and of the
\* let-statements evaluated
NewHeap ==
  [envs |-> <<NewEnvironment>>, next |-> 1, steps |-> 0, made |-> <<>>,
   calls |-> <<>>, lets |-> <<>>]

(***************************************************************************)
(* The evaluator (package evaluator).  Every function takes the heap st    *)
(* and returns [val, st]: the value and the heap after it.                 *)
(***************************************************************************)
\* the mutant of nativeToBooleanObject: a Boolean object that is neither
\* TRUE nor FALSE
nativeToBooleanObjectNew(input) ==
  [type |-> "BOOLEAN", Value |-> input, addr |-> "new"]

nativeToBooleanObject(input) == IF input THEN ObjTRUE ELSE ObjFALSE

\* the mutant of isTruthy: the integer 0 is not truthy
isTruthyButZero(obj) ==
  IF obj.type = "NULL" THEN FALSE
  ELSE IF obj.type = "BOOLEAN" THEN obj.Value
  ELSE IF obj.type = "INTEGER" THEN obj.Value # 0
  ELSE TRUE

\* obj is compared with the instances NULL, TRUE and FALSE; every boolean
\* object is one of the two instances
isTruthy(obj) ==
  IF obj.type = "NULL" THEN FALSE
  ELSE IF obj.type = "BOOLEAN" THEN obj.Value
  ELSE TRUE

evalBangOperatorExpression(right) == nativeToBooleanObject(~isTruthy(right))

evalMinusPrefixOperatorExpression(right) ==
  IF right.type = "nil" THEN NilDereference
  ELSE IF right.type # "INTEGER"
  THEN newError("unknown operator: -%s", <<<<right.type>>>>)
  ELSE Integer(-right.Value)

evalPrefixExpression(operator, right) ==
  CASE operator = <<"!">> -> evalBangOperatorExpression(right)
    [] operator = <<"-">> -> evalMinusPrefixOperatorExpression(right)
    [] OTHER ->
         IF right.type = "nil" THEN NilDereference
         ELSE newError("unknown operator: %s%s", <<operator, <<right.type>>>>)

\* Go's integer division truncates toward zero
Quotient(a, b) ==
  IF (a < 0) = (b < 0) THEN (IF a < 0 THEN (-a) \div (-b) ELSE a \div b)
  ELSE -((IF a < 0 THEN -a ELSE a) \div (IF b < 0 THEN -b ELSE b))

evalIntegerInfixExpression(operator, left, right) ==
  LET leftVal == left.Value
      rightVal == right.Value
  IN  CASE operator = <<"+">> -> Integer(leftVal + rightVal)
        [] operator = <<"-">> -> Integer(leftVal - rightVal)
        [] operator = <<"*">> -> Integer(leftVal * rightVal)
        [] operator = <<"/">> ->
             IF rightVal = 0 THEN DivideByZero
             ELSE Integer(Quotient(leftVal, rightVal))
        [] operator = <<"<">> -> nativeToBooleanObject(leftVal < rightVal)
        [] operator = <<">">> -> nativeToBooleanObject(leftVal > rightVal)
        [] operator = <<"=", "=">> ->
             nativeToBooleanObject(leftVal = rightVal)
        [] operator = <<"!", "=">> ->
             nativeToBooleanObject(leftVal # rightVal)
        [] OTHER ->
             newError("unknown operator: %s %s %s",
                      <<<<left.type>>, operator, <<right.type>>>>)

\* left == right on two references: the same object.  Null is a single
\* instance, a boolean, function or return-value object is the same as
\* another when it has the same address, and two integer objects that reach
\* this comparison are never the same object.
SameObject(left, right) ==
  /\ left.type = right.type
  /\ IF left.type \in {"FUNCTION", "RETURN_VALUE"} THEN left.addr = right.addr
     ELSE IF left.type = "BOOLEAN" THEN left.addr = right.addr
     ELSE left.type \in {"NULL", "nil"}

\* the mutant of evalInfixExpression: operands of different types are not
\* told apart from operands of one type
evalInfixExpressionNoMismatch(operator, left, right) ==
  IF left.type = "nil" THEN NilDereference
  ELSE IF left.type = "INTEGER" /\ right.type = "nil" THEN NilDereference
  ELSE IF left.type = "INTEGER" /\ right.type = "INTEGER"
  THEN evalIntegerInfixExpression(operator, left, right)
  ELSE IF operator = <<"=", "=">>
  THEN nativeToBooleanObject(SameObject(left, right))
  ELSE IF operator = <<"!", "=">>
  THEN nativeToBooleanObject(~SameObject(left, right))
  ELSE IF right.type = "nil" THEN NilDereference
  ELSE newError("unknown operator: %s %s %s",
                <<<<left.type>>, operator, <<right.type>>>>)

\* the mutant of evalInfixExpression: operands of different types are a type
\* mismatch before == and != are looked at
evalInfixExpressionTypeFirst(operator, left, right) ==
  IF left.type = "nil" \/ right.type = "nil" THEN NilDereference
  ELSE IF left.type = "INTEGER" /\ right.type = "INTEGER"
  THEN evalIntegerInfixExpression(operator, left, right)
  ELSE IF left.type # right.type
  THEN newError("type mismatch: %s %s %s",
                <<<<left.type>>, operator, <<right.type>>>>)
  ELSE IF operator = <<"=", "=">>
  THEN nativeToBooleanObject(SameObject(left, right))
  ELSE IF operator = <<"!", "=">>
  THEN nativeToBooleanObject(~SameObject(left, right))
  ELSE newError("unknown operator: %s %s %s",
                <<<<left.type>>, operator, <<right.type>>>>)

evalInfixExpression(operator, left, right) ==
  IF left.type = "nil" THEN NilDereference
  ELSE IF left.type = "INTEGER" /\ right.type = "nil" THEN NilDereference
  ELSE IF left.type = "INTEGER" /\ right.type = "INTEGER"
  THEN evalIntegerInfixExpression(operator, left, right)
  ELSE IF operator = <<"=", "=">>
  THEN nativeToBooleanObject(SameObject(left, right))
  ELSE IF operator = <<"!", "=">>
  THEN nativeToBooleanObject(~SameObject(left, right))
  ELSE IF right.type = "nil" THEN NilDereference
  ELSE IF left.type # right.type
  THEN newError("type mismatch: %s %s %s",
                <<<<left.type>>, operator, <<right.type>>>>)
  ELSE newError("unknown operator: %s %s %s",
                <<<<left.type>>, operator, <<right.type>>>>)

unwrapReturnValue(obj) ==
  IF obj.type = "RETURN_VALUE" THEN obj.Value ELSE obj

RECURSIVE Eval(_, _, _)
RECURSIVE evalProgram(_, _, _)
RECURSIVE evalProgramPastError(_, _, _)
RECURSIVE evalBlockStatement(_, _, _)
RECURSIVE evalBlockStatementPastReturn(_, _, _)
RECURSIVE evalIfExpression(_, _, _)
RECURSIVE evalIfExpressionEnclosed(_, _, _)
RECURSIVE evalExpressionsLoop(_, _, _, _)
RECURSIVE applyFunction(_, _, _)

evalIdentifier(node, env, st) ==
  LET Found(r) ==
        IF ~r.ok
        THEN newError("identifier not found: %s", <<node.Value>>)
        ELSE r.obj
  IN  [val |-> Found(Get(st.envs, env, node.Value)), st |-> st]

\* the mutant of evalExpressions: every expression is evaluated and the
\* first error-value among the results is returned
RECURSIVE evalExpressionsAllLoop(_, _, _, _, _)
evalExpressionsAllLoop(exps, env, st, results, failed) ==
  LET Evaluated(r) ==
        IF Panicked(r.val) THEN [val |-> <<r.val>>, st |-> r.st]
        ELSE evalExpressionsAllLoop(Tail(exps), env, r.st,
               Append(results, r.val),
               IF Len(failed) = 0 /\ isError(r.val) THEN <<r.val>>
               ELSE failed)
  IN  IF exps = <<>>
      THEN [val |-> IF Len(failed) > 0 THEN failed ELSE results, st |-> st]
      ELSE Evaluated(Eval(Head(exps), env, st))

evalExpressionsAll(exps, env, st) ==
  evalExpressionsAllLoop(exps, env, st, <<>>, <<>>)

\* the loop of evalExpressions; val is the slice of results
evalExpressionsLoop(exps, env, st, results) ==
  LET Evaluated(r) ==
        IF Panicked(r.val) \/ isError(r.val)
        THEN [val |-> <<r.val>>, st |-> r.st]
        ELSE evalExpressionsLoop(Tail(exps), env, r.st, Append(results, r.val))
  IN  IF exps = <<>> THEN [val |-> results, st |-> st]
      ELSE Evaluated(Eval(Head(exps), env, st))

evalExpressions(exps, env, st) == evalExpressionsLoop(exps, env, st, <<>>)

\* the loop of extendFunctionEnv from the parameter idx on: args[idx] of a
\* missing argument is an index out of range
RECURSIVE extendFunctionEnvLoop(_, _, _, _, _)
extendFunctionEnvLoop(fn, args, st, env, idx) ==
  IF idx > Len(fn.Parameters) THEN [env |-> env, st |-> st, panic |-> FALSE]
  ELSE IF idx > Len(args) THEN [env |-> env, st |-> st, panic |-> TRUE]
  ELSE extendFunctionEnvLoop(fn, args,
         Set(st, env, fn.Parameters[idx].Value, args[idx]), env, idx + 1)

\* the mutant of extendFunctionEnv: the new environment encloses the global
\* environment, whatever the function captured
extendFunctionEnvGlobal(fn, args, st) ==
  extendFunctionEnvLoop(fn, args, NewEnclosedEnvironment(st, 1),
                        Len(st.envs) + 1, 1)

\* the mutant of extendFunctionEnv: the parameters are bound in the captured
\* environment itself
extendFunctionEnvShared(fn, args, st) ==
  extendFunctionEnvLoop(fn, args, NewEnclosedEnvironment(st, fn.Env),
                        fn.Env, 1)

\* returns [env, st, panic]: the reference of the new environment
extendFunctionEnv(fn, args, st) ==
  extendFunctionEnvLoop(fn, args, NewEnclosedEnvironment(st, fn.Env),
                        Len(st.envs) + 1, 1)

applyFunction(fn, args, st) ==
  LET Unwrap(r) == [val |-> unwrapReturnValue(r.val), st |-> r.st]
      Body(x) ==
        IF x.panic THEN [val |-> IndexOutOfRange, st |-> x.st]
        ELSE Unwrap(Eval(fn.Body, x.env, x.st))
  IN  IF fn.type = "nil" THEN [val |-> NilDereference, st |-> st]
      ELSE IF fn.type # "FUNCTION"
      THEN [val |-> newError("not a function: %s", <<<<fn.type>>>>), st |-> st]
      ELSE Body(extendFunctionEnv(fn, args, st))

\* the mutant of evalProgram: an error-value does not stop the program
evalProgramPastError(statements, env, st) ==
  LET Statement(r) ==
        IF Panicked(r.val) THEN r
        ELSE IF r.val.type = "RETURN_VALUE"
        THEN [val |-> r.val.Value, st |-> r.st]
        ELSE IF Len(statements) = 1 THEN r
        ELSE evalProgramPastError(Tail(statements), env, r.st)
  IN  IF statements = <<>> THEN [val |-> NilObject, st |-> st]
      ELSE Statement(Eval(Head(statements), env, st))

evalProgram(statements, env, st) ==
  LET Statement(r) ==
        IF Panicked(r.val) THEN r
        ELSE IF r.val.type = "RETURN_VALUE"
        THEN [val |-> r.val.Value, st |-> r.st]
        ELSE IF r.val.type = "ERROR" THEN r
        ELSE IF Len(statements) = 1 THEN r
        ELSE evalProgram(Tail(statements), env, r.st)
  IN  IF statements = <<>> THEN [val |-> NilObject, st |-> st]
      ELSE Statement(Eval(Head(statements), env, st))

\* the mutant of evalBlockStatement: only an error-value stops the block
evalBlockStatementPastReturn(statements, env, st) ==
  LET Statement(r) ==
        IF Panicked(r.val) THEN r
        ELSE IF r.val.type = "ERROR" THEN r
        ELSE IF Len(statements) = 1 THEN r
        ELSE evalBlockStatementPastReturn(Tail(statements), env, r.st)
  IN  IF statements = <<>> THEN [val |-> NilObject, st |-> st]
      ELSE Statement(Eval(Head(statements), env, st))

evalBlockStatement(statements, env, st) ==
  LET Statement(r) ==
        IF Panicked(r.val) THEN r
        ELSE IF r.val.type # "nil" /\ r.val.type \in {"RETURN_VALUE", "ERROR"}
        THEN r
        ELSE IF Len(statements) = 1 THEN r
        ELSE evalBlockStatement(Tail(statements), env, r.st)
  IN  IF statements = <<>> THEN [val |-> NilObject, st |-> st]
      ELSE Statement(Eval(Head(statements), env, st))

\* the mutant of evalIfExpression: a block is evaluated in an environment
\* of its own, enclosed in the current one
evalIfExpressionEnclosed(ie, env, st) ==
  LET Block(b, s) ==
        Eval(b, Len(s.envs) + 1, NewEnclosedEnvironment(s, env))
      Condition(r) ==
        IF Panicked(r.val) \/ isError(r.val) THEN r
        ELSE IF isTruthy(r.val) THEN Block(ie.Consequence, r.st)
        ELSE IF ie.Alternative.kind # "nil" THEN Block(ie.Alternative, r.st)
        ELSE [val |-> NULL, st |-> r.st]
  IN  Condition(Eval(ie.Condition, env, st))

evalIfExpression(ie, env, st) ==
  LET Condition(r) ==
        IF Panicked(r.val) \/ isError(r.val) THEN r
        ELSE IF isTruthy(r.val) THEN Eval(ie.Consequence, env, r.st)
        ELSE IF ie.Alternative.kind # "nil" THEN Eval(ie.Alternative, env, r.st)
        ELSE [val |-> NULL, st |-> r.st]
  IN  Condition(Eval(ie.Condition, env, st))

Eval(node, env, st0) ==
  LET st == [st0 EXCEPT !.steps = @ + 1]
      Stop(r) == Panicked(r.val) \/ isError(r.val)
      Return(r) ==
        IF Stop(r) THEN r
        ELSE [val |-> ReturnValue(r.val, r.st.next),
              st |-> [r.st EXCEPT !.next = @ + 1]]
      \* the history of the let-statements: the environment, the name, the
      \* value of the expression, the environments before and after binding
      Bound(r, s) ==
        [s EXCEPT !.lets = Append(@, [env |-> env, name |-> node.Name.Value,
                                      val |-> r.val, mid |-> r.st.envs,
                                      after |-> s.envs])]
      Let(r) ==
        IF Panicked(r.val) THEN r
        ELSE IF isError(r.val) THEN [val |-> r.val, st |-> Bound(r, r.st)]
        ELSE [val |-> NilObject,
              st |-> Bound(r, Set(r.st, env, node.Name.Value, r.val))]
      Prefix(r) ==
        IF Stop(r) THEN r
        ELSE [val |-> evalPrefixExpression(node.Operator, r.val), st |-> r.st]
      Right(left, r) ==
        IF Stop(r) THEN r
        ELSE [val |-> evalInfixExpression(node.Operator, left, r.val),
              st |-> r.st]
      Left(r) ==
        IF Stop(r) THEN r ELSE Right(r.val, Eval(node.Right, env, r.st))
      \* the history of the applications: the function, the arguments, the
      \* caller's environment, the heap before and after, the value
      Applied(function, a, r) ==
        [val |-> r.val,
         st |-> [r.st EXCEPT !.calls =
                   Append(@, [fn |-> function, args |-> a.val,
                              caller |-> env, before |-> a.st.envs,
                              evals |-> r.st.steps - a.st.steps,
                              after |-> r.st.envs, val |-> r.val])]]
      Args(function, a) ==
        IF Len(a.val) = 1 /\ Stop([val |-> a.val[1]])
        THEN [val |-> a.val[1], st |-> a.st]
        ELSE Applied(function, a, applyFunction(function, a.val, a.st))
      Call(r) ==
        IF Stop(r) THEN r
        ELSE Args(r.val, evalExpressions(node.Arguments, env, r.st))
  IN  CASE node.kind = "Program" -> evalProgram(node.Statements, env, st)
        [] node.kind = "ExpressionStatement" -> Eval(node.Expression, env, st)
        [] node.kind = "BlockStatement" ->
             evalBlockStatement(node.Statements, env, st)
        [] node.kind = "ReturnStatement" -> Return(Eval(node.Value, env, st))
        [] node.kind = "LetStatement" -> Let(Eval(node.Value, env, st))
        [] node.kind = "IntegerLiteral" ->
             [val |-> Integer(node.Value), st |-> st]
        [] node.kind = "Boolean" ->
             [val |-> nativeToBooleanObject(node.Value), st |-> st]
        [] node.kind = "Identifier" -> evalIdentifier(node, env, st)
        [] node.kind = "PrefixExpression" -> Prefix(Eval(node.Right, env, st))
        [] node.kind = "InfixExpression" -> Left(Eval(node.Left, env, st))
        [] node.kind = "IfExpression" -> evalIfExpression(node, env, st)
        [] node.kind = "FunctionLiteral" ->
             [val |-> Function(node.Parameters, node.Body, env, st.next),
              st |-> [st EXCEPT !.next = @ + 1,
                                !.made = Append(@, [addr |-> st.next,
                                                    env |-> env])]]
        [] node.kind = "CallExpression" -> Call(Eval(node.Function, env, st))
        [] OTHER -> [val |-> NilObject, st |-> st]

(***************************************************************************)
(* Hash keys.  A uint64 is its eight bytes, the lowest first; a string is  *)
(* the sequence of its bytes.  The hashable objects live in a memory mem   *)
(* and the receiver of HashKey is a pointer into it.                       *)
(***************************************************************************)
\* &object.String{Value: value}
StringObject(value) == [type |-> "STRING", Value |-> value]

Array(elements) == [type |-> "ARRAY", Elements |-> elements]

\* uint64(v) of an int64 v: the two's complement of v
RECURSIVE Uint64Bytes(_, _)
Uint64Bytes(v, n) ==
  IF n = 0 THEN <<>> ELSE <<v % 256>> \o Uint64Bytes(v \div 256, n - 1)

Uint64(v) == Uint64Bytes(v, 8)

\* hash/fnv: offset64 = 0xcbf29ce484222325 and prime64 = 0x100000001b3
offset64 == <<37, 35, 34, 132, 228, 156, 242, 203>>

prime64 == <<179, 1, 0, 0, 0, 1, 0, 0>>

\* the sum of the products x[i] * y[j] that weigh 256^(k-1)
RECURSIVE MulColumn(_, _, _, _)
MulColumn(x, y, k, i) ==
  IF i > k THEN 0 ELSE x[i] * y[k + 1 - i] + MulColumn(x, y, k, i + 1)

\* x * y of two uint64: the product modulo 2^64
RECURSIVE MulFrom(_, _, _, _)
MulFrom(x, y, k, carry) ==
  LET Digit(sum) == <<sum % 256>> \o MulFrom(x, y, k + 1, sum \div 256)
  IN  IF k > 8 THEN <<>> ELSE Digit(MulColumn(x, y, k, 1) + carry)

Mul64(x, y) == MulFrom(x, y, 1, 0)

\* a ^ b of two numbers of n bits
RECURSIVE XorBits(_, _, _)
XorBits(a, b, n) ==
  IF n = 0 THEN 0
  ELSE ((a + b) % 2) + 2 * XorBits(a \div 2, b \div 2, n - 1)

\* hash ^= uint64(c), for a byte c
Xor64(hash, c) == [hash EXCEPT ![1] = XorBits(@, c, 8)]

\* fnv.New64()
New64 == offset64

\* h.Write(data) of the FNV-1 hash: for each byte, hash *= prime64 and then
\* hash ^= byte
RECURSIVE Write(_, _)
Write(hash, data) ==
  IF data = <<>> THEN hash
  ELSE Write(Xor64(Mul64(hash, prime64), Head(data)), Tail(data))

\* h.Sum64()
Sum64(hash) == hash

IntegerHashKey(i) == [Type |-> "INTEGER", Value |-> Uint64(i.Value)]

StringHashKey(s) ==
  [Type |-> "STRING", Value |-> Sum64(Write(New64, s.Value))]

BooleanHashKey(b) ==
  [Type |-> "BOOLEAN", Value |-> IF b.Value THEN Uint64(1) ELSE Uint64(0)]

\* the mutant of HashKey: the key is made of the pointer
HashKeyOfPointer(mem, ptr) == [Type |-> mem[ptr].type, Value |-> Uint64(ptr)]

\* Hashable.HashKey() of the object that ptr points to
HashKey(mem, ptr) ==
  IF mem[ptr].type = "INTEGER" THEN IntegerHashKey(mem[ptr])
  ELSE IF mem[ptr].type = "STRING" THEN StringHashKey(mem[ptr])
  ELSE BooleanHashKey(mem[ptr])

(***************************************************************************)
(* The built-in functions.                                                 *)
(***************************************************************************)
\* the %d of fmt.Sprintf for a number that is not negative
RECURSIVE FormatDecimal(_)
FormatDecimal(n) ==
  LET Digit(d) == <<"0","1","2","3","4","5","6","7","8","9">>[d + 1]
  IN  IF n < 10 THEN <<Digit(n)>>
      ELSE FormatDecimal(n \div 10) \o <<Digit(n % 10)>>

\* the mutant of len: strings only
lenOfStrings(arguments) ==
  IF Len(arguments) # 1
  THEN newError("wrong number of arguments. got=%d, want=1",
                <<FormatDecimal(Len(arguments))>>)
  ELSE IF arguments[1].type = "nil" THEN NilDereference
  ELSE IF arguments[1].type = "STRING"
  THEN Integer(Len(arguments[1].Value))
  ELSE newError("argument to 'len' not supported, got %s",
                <<<<arguments[1].type>>>>)

\* builtins["len"]; arg.Type() of a nil argument panics.  The grave accents
\* around len in the message are written as apostrophes.
len(arguments) ==
  IF Len(arguments) # 1
  THEN newError("wrong number of arguments. got=%d, want=1",
                <<FormatDecimal(Len(arguments))>>)
  ELSE IF arguments[1].type = "nil" THEN NilDereference
  ELSE IF arguments[1].type = "STRING"
  THEN Integer(Len(arguments[1].Value))
  ELSE IF arguments[1].type = "ARRAY"
  THEN Integer(Len(arguments[1].Elements))
  ELSE newError("argument to 'len' not supported, got %s",
                <<<<arguments[1].type>>>>)

(***************************************************************************)
(* Arrays in memory.  m.cells holds the backing arrays, a slice is a       *)
(* window [array, off, len, cap] on one of them, m.objs[addr] is the       *)
(* Elements slice of the Array object at addr, and m.calls is the history  *)
(* of the calls of the built-in functions.  An array value is the pointer  *)
(* ArrayAt(addr).                                                          *)
(***************************************************************************)
NewMemory == [cells |-> <<>>, objs |-> <<>>, calls |-> <<>>]

\* a *object.Array
ArrayAt(addr) == [type |-> "ARRAY", addr |-> addr]

\* make([]object.Object, length, capacity)
make(m, length, capacity) ==
  [slice |-> [array |-> Len(m.cells) + 1, off |-> 0, len |-> length,
              cap |-> capacity],
   m |-> [m EXCEPT !.cells = Append(@, [k \in 1..capacity |-> NilObject])]]

\* s[low:high]
Reslice(s, low, high) ==
  [array |-> s.array, off |-> s.off + low, len |-> high - low,
   cap |-> s.cap - low]

\* the elements that the slice s shows
Elements(m, s) == [k \in 1..s.len |-> m.cells[s.array][s.off + k]]

\* copy(dst, src)
copy(m, dst, src) ==
  LET n == IF dst.len < src.len THEN dst.len ELSE src.len
  IN  [m EXCEPT !.cells[dst.array] =
         [k \in DOMAIN @ |->
            IF k - dst.off \in 1..n
            THEN m.cells[src.array][src.off + (k - dst.off)]
            ELSE @[k]]]

\* append(s, x): in place when the capacity allows it, else in a new
\* backing array of twice the capacity
append(m, s, x) ==
  LET Put(r) ==
        [slice |-> [r.slice EXCEPT !.len = @ + 1],
         m |-> [r.m EXCEPT
                  !.cells[r.slice.array][r.slice.off + r.slice.len + 1] = x]]
      Grown(r) == Put([slice |-> r.slice, m |-> copy(r.m, r.slice, s)])
  IN  IF s.len < s.cap THEN Put([slice |-> s, m |-> m])
      ELSE Grown(make(m, s.len, IF s.cap = 0 THEN 1 ELSE 2 * s.cap))

\* &object.Array{Elements: elements}
NewArray(m, elements) ==
  [val |-> ArrayAt(Len(m.objs) + 1),
   m |-> [m EXCEPT !.objs = Append(@, elements)]]

\* builtins["tail"]
tail(m, arguments) ==
  LET arr == m.objs[arguments[1].addr]
      Copied(r) ==
        NewArray(copy(r.m, r.slice, Reslice(arr, 1, arr.len)), r.slice)
  IN  IF Len(arguments) # 1
      THEN [val |-> newError("wrong number of arguments. got=%d, want=1",
                             <<FormatDecimal(Len(arguments))>>),
            m |-> m]
      ELSE IF arguments[1].type = "nil" THEN [val |-> NilDereference, m |-> m]
      ELSE IF arguments[1].type # "ARRAY"
      THEN [val |-> newError("argument to 'tail' must be ARRAY, got %s",
                             <<<<arguments[1].type>>>>),
            m |-> m]
      ELSE IF arr.len = 0 THEN [val |-> NULL, m |-> m]
      ELSE Copied(make(m, arr.len - 1, arr.len - 1))

\* the mutant of push: the element is appended to the Elements of the
\* argument
pushInPlace(m, arguments) ==
  LET arr == m.objs[arguments[1].addr]
      Appended(r) ==
        [val |-> arguments[1],
         m |-> [r.m EXCEPT !.objs[arguments[1].addr] = r.slice]]
  IN  IF Len(arguments) # 2
      THEN [val |-> newError("wrong number of arguments. got=%d, want=2",
                             <<FormatDecimal(Len(arguments))>>),
            m |-> m]
      ELSE IF arguments[1].type = "nil" THEN [val |-> NilDereference, m |-> m]
      ELSE IF arguments[1].type # "ARRAY"
      THEN [val |-> newError("first argument to 'push' must be ARRAY, got %s",
                             <<<<arguments[1].type>>>>),
            m |-> m]
      ELSE Appended(append(m, arr, arguments[2]))

\* builtins["push"]
push(m, arguments) ==
  LET arr == m.objs[arguments[1].addr]
      Appended(r) == NewArray(r.m, r.slice)
      Copied(r) ==
        Appended(append(copy(r.m, r.slice, arr), r.slice, arguments[2]))
  IN  IF Len(arguments) # 2
      THEN [val |-> newError("wrong number of arguments. got=%d, want=2",
                             <<FormatDecimal(Len(arguments))>>),
            m |-> m]
      ELSE IF arguments[1].type = "nil" THEN [val |-> NilDereference, m |-> m]
      ELSE IF arguments[1].type # "ARRAY"
      THEN [val |-> newError("first argument to 'push' must be ARRAY, got %s",
                             <<<<arguments[1].type>>>>),
            m |-> m]
      ELSE Copied(make(m, arr.len, arr.len + 1))

(***************************************************************************)
(* State.                                                                  *)
(*   units    the pieces of source text typed so far                       *)
(*   line     the source text: the units, each followed by a space         *)
(*   pc       "typing", "parsing", "parsed", "reparsed", "hung",           *)
(*            "evaluated" or "panicked"                                    *)
(*   p        the Parser                                                   *)
(*   program  program.Statements of ParseProgram                           *)
(*   last     what the last round of ParseProgram's loop started from and  *)
(*            the statement it got from parseStatement                     *)
(*   printed  Program.String() of the parsed program                       *)
(*   reparsed the statements and diagnostics of parsing printed            *)
(*   heap     the environments and the history of the evaluation; the      *)
(*            environment of the session is heap.envs[1]                   *)
(*   result   the object Eval returned for the program, or the panic       *)
(*   objects  the memory of the hashable objects allocated                 *)
(*   keys     keys[ptr] is the HashKey taken of the object at ptr, or      *)
(*            NoHashKey                                                    *)
(*   given    the arguments handed to a built-in function                  *)
(*   returned the object the built-in function returned, or the panic      *)
(*   mem      the memory of the arrays and the history of the calls of the *)
(*            built-in functions on them                                   *)
(*   lexer    the Lexer that is called directly                            *)
(*   tokens   the calls of NextToken on lexer: the Lexer before the call   *)
(*            and the token returned                                       *)
(*   session  the lines of the session that are done: their source text,   *)
(*            their diagnostics and the environments when they were done   *)
(***************************************************************************)
VARIABLES units, line, pc, p, program, last, printed, reparsed, heap, result,
          objects, keys, given, returned, mem, lexer, tokens, session

vars == <<units, line, pc, p, program, last, printed, reparsed, heap, result,
          objects, keys, given, returned, mem,
               lexer, tokens, session>>

NoRound == [valid |-> FALSE, tok |-> NewToken("ILLEGAL", <<>>), node |-> Nil,
            errors |-> <<>>, program |-> <<>>, readPosition |-> 0]

NoHashKey == [Type |-> "", Value |-> <<>>]

NoReparse == [statements |-> <<>>, errors |-> <<>>, hang |-> FALSE]

Init ==
  /\ units = <<>>
  /\ line = <<>>
  /\ pc = "typing"
  /\ p = NewParser(NewLexer(<<>>))
  /\ program = <<>>
  /\ last = NoRound
  /\ printed = <<>>
  /\ reparsed = NoReparse
  /\ heap = NewHeap
  /\ result = NilObject
  /\ objects = <<>>
  /\ keys = <<>>
  /\ given = <<>>
  /\ returned = NilObject
  /\ mem = NewMemory
  /\ lexer = NewLexer(<<>>)
  /\ tokens = <<>>
  /\ session = <<>>

\* A unit of source text is typed, followed by a space.
TypeUnit(u, max) ==
  /\ pc = "typing"
  /\ Len(units) < max
  /\ units' = Append(units, u)
  /\ line' = line \o u \o <<" ">>
  /\ UNCHANGED <<pc, p, program, last, printed, reparsed, heap, result,
               objects, keys, given, returned, mem,
               lexer, tokens, session>>

\* l := lexer.New(line); p := parser.New(l); the start of ParseProgram
StartParse ==
  /\ pc = "typing"
  /\ units # <<>>
  /\ pc' = "parsing"
  /\ p' = NewParser(NewLexer(line))
  /\ program' = <<>>
  /\ UNCHANGED <<units, line, last, printed, reparsed, heap, result,
               objects, keys, given, returned, mem,
               lexer, tokens, session>>

\* One round of the loop of ParseProgram.
ParseRound ==
  /\ pc = "parsing"
  /\ ~currTokenIs(p, "EOF")
  /\ LET Round(r) ==
           IF r.p.hang
           THEN /\ pc' = "hung"
                /\ UNCHANGED <<p, program, last>>
           ELSE /\ pc' = pc
                /\ p' = r.p
                /\ program' = r.statements
                /\ last' = [valid |-> TRUE, tok |-> p.currToken,
                            node |-> r.node,
                            errors |-> p.errors, program |-> program,
                            readPosition |-> p.l.readPosition]
     IN  Round(ParseProgramStep(p, program))
  /\ UNCHANGED <<units, line, printed, reparsed, heap, result,
               objects, keys, given, returned, mem,
               lexer, tokens, session>>

\* ParseProgram returns; the front end prints program.String().
ParseReturn ==
  /\ pc = "parsing"
  /\ currTokenIs(p, "EOF")
  /\ pc' = "parsed"
  /\ printed' = ProgramString(program)
  /\ UNCHANGED <<units, line, p, program, last, reparsed, heap, result,
               objects, keys, given, returned, mem,
               lexer, tokens, session>>

\* The printed text is parsed again.
Reparse ==
  /\ pc = "parsed"
  /\ p.errors = <<>>
  /\ pc' = "reparsed"
  /\ LET Again(r) ==
           reparsed' = [statements |-> r.statements, errors |-> r.p.errors,
                        hang |-> r.p.hang]
     IN  Again(ParseProgram(NewParser(NewLexer(printed))))
  /\ UNCHANGED <<units, line, p, program, last, printed, heap, result,
               objects, keys, given, returned, mem,
               lexer, tokens, session>>

\* the mutant of Evaluate: a program with diagnostics is evaluated too
EvaluateWithDiagnostics ==
  /\ pc = "parsed"
  /\ LET Evaluated(r) ==
           /\ result' = r.val
           /\ heap' = r.st
           /\ pc' = IF Panicked(r.val) THEN "panicked" ELSE "evaluated"
     IN  Evaluated(Eval([kind |-> "Program", Statements |-> program], 1, heap))
  /\ UNCHANGED <<units, line, p, program, last, printed, reparsed,
                 objects, keys, given, returned, mem, lexer, tokens, session>>

\* evaluated := evaluator.Eval(program, env), for a program parsed without
\* diagnostics; a panic ends the process.
Evaluate ==
  /\ pc = "parsed"
  /\ p.errors = <<>>
  /\ LET Evaluated(r) ==
           /\ result' = r.val
           /\ heap' = r.st
           /\ pc' = IF Panicked(r.val) THEN "panicked" ELSE "evaluated"
     IN  Evaluated(Eval([kind |-> "Program", Statements |-> program], 1, heap))
  /\ UNCHANGED <<units, line, p, program, last, printed, reparsed,
               objects, keys, given, returned, mem,
               lexer, tokens, session>>

(***************************************************************************)
(* SpecExpr: the lines are expressions made of operands, prefix operators, *)
(* binary operators and calls, typed lexeme by lexeme.                     *)
(***************************************************************************)
Operands == {<<"a">>, <<"1">>}

PrefixOperators == {<<"-">>, <<"!">>}

InfixOperators ==
  {<<"+">>, <<"-">>, <<"*">>, <<"/">>, <<"<">>, <<">">>, <<"=","=">>,
   <<"!","=">>}

RECURSIVE CountUnit(_, _)
CountUnit(us, u) ==
  IF us = <<>> THEN 0
  ELSE (IF Head(us) = u THEN 1 ELSE 0) + CountUnit(Tail(us), u)

\* the number of argument lists that are open
OpenCalls == CountUnit(units, <<"(">>) - CountUnit(units, <<")">>)

\* the line so far ends with a complete operand
AfterOperand ==
  /\ units # <<>>
  /\ units[Len(units)] \in Operands \cup {<<")">>}

TypeOperand ==
  /\ ~AfterOperand
  /\ \E u \in Operands : TypeUnit(u, MaxLexemes)

TypePrefixOperator ==
  /\ ~AfterOperand
  /\ \E u \in PrefixOperators : TypeUnit(u, MaxLexemes)

TypeInfixOperator ==
  /\ AfterOperand
  /\ \E u \in InfixOperators : TypeUnit(u, MaxLexemes)

TypeCallOpen ==
  /\ AfterOperand
  /\ TypeUnit(<<"(">>, MaxLexemes)

TypeCallComma ==
  /\ AfterOperand
  /\ OpenCalls > 0
  /\ TypeUnit(<<",">>, MaxLexemes)

TypeCallClose ==
  /\ OpenCalls > 0
  /\ AfterOperand \/ units[Len(units)] = <<"(">>
  /\ TypeUnit(<<")">>, MaxLexemes)

NextExpr ==
  \/ TypeOperand
  \/ TypePrefixOperator
  \/ TypeInfixOperator
  \/ TypeCallOpen
  \/ TypeCallComma
  \/ TypeCallClose
  \/ StartParse
  \/ ParseRound
  \/ ParseReturn
  \/ Reparse

SpecExpr == Init /\ [][NextExpr]_vars

(***************************************************************************)
(* SpecStmt: the lines are sequences of statements, well formed and        *)
(* malformed, typed chunk by chunk.                                        *)
(***************************************************************************)
StatementChunks ==
  { <<"l","e","t"," ","x"," ","="," ","5",";">>,
    <<"l","e","t"," ","="," ","5",";">>,
    <<"l","e","t"," ","y"," ","1","0",";">>,
    <<"l","e","t"," ","x"," ","="," ",";">>,
    <<"x",";">>,
    <<"r","e","t","u","r","n"," ","1",";">>,
    <<"i","f"," ","(","x",")"," ","{">>,
    <<"}">> }

TypeChunk == \E u \in StatementChunks : TypeUnit(u, MaxChunks)

NextStmt ==
  \/ TypeChunk
  \/ StartParse
  \/ ParseRound
  \/ ParseReturn
  \/ Reparse

SpecStmt == Init /\ [][NextStmt]_vars

(***************************************************************************)
(* SpecOperators: the lines are a value, a prefix operator applied to a    *)
(* value, or a binary operator applied to two values, typed unit by unit,  *)
(* parsed and evaluated in the environment of a new session.               *)
(***************************************************************************)
Zero ==
  <<"0">>

One ==
  <<"1">>

Five ==
  <<"5">>

True ==
  <<"t","r","u","e">>

False ==
  <<"f","a","l","s","e">>

IfWithoutValue ==
  <<"i","f"," ","(","f","a","l","s","e",")"," ","{"," ","1"," ","}">>

IfEmptyBlock ==
  <<"i","f"," ","(","t","r","u","e",")"," ","{"," ","}">>

CallEndingInLet ==
  <<"f","n","(",")"," ","{"," ","l","e","t"," ","a"," ","="," ","1",";"," ",
    "}","(",")">>

FunctionValue ==
  <<"f","n","(",")"," ","{"," ","}">>

IntegerValues == {Zero, One, Five}

BooleanValues == {True, False}

Values ==
  IntegerValues \cup BooleanValues
    \cup {IfWithoutValue, IfEmptyBlock, CallEndingInLet, FunctionValue}

\* the line so far ends with a value
AfterValue ==
  /\ units # <<>>
  /\ units[Len(units)] \in Values

TypeValue ==
  /\ ~AfterValue
  /\ \E u \in Values : TypeUnit(u, MaxOperatorUnits)

TypeSign ==
  /\ ~AfterValue
  /\ \E u \in PrefixOperators : TypeUnit(u, MaxOperatorUnits)

TypeOperator ==
  /\ AfterValue
  /\ \E u \in InfixOperators : TypeUnit(u, MaxOperatorUnits)

NextOperators ==
  \/ TypeValue
  \/ TypeSign
  \/ TypeOperator
  \/ StartParse
  \/ ParseRound
  \/ ParseReturn
  \/ Evaluate

SpecOperators == Init /\ [][NextOperators]_vars

(***************************************************************************)
(* SpecClosures: the lines are sequences of statements that define and     *)
(* call closures, typed statement by statement, parsed and evaluated in    *)
(* the environment of a new session.                                       *)
(***************************************************************************)
LetX ==
  <<"l","e","t"," ","x"," ","="," ","1",";">>

LetF ==
  <<"l","e","t"," ","f"," ","="," ","f","n","(",")"," ","{"," ","x"," ","}",
    ";">>

LetG ==
  <<"l","e","t"," ","g"," ","="," ","f","n","(","x",")"," ","{"," ","f","(",
    ")"," ","}",";">>

CallG ==
  <<"g","(","2",")",";">>

LetNewAdder ==
  <<"l","e","t"," ","n","e","w","A","d","d","e","r"," ","="," ","f","n","(",
    "x",")"," ","{"," ","f","n","(","y",")"," ","{"," ","x"," ","+"," ","y",
    " ","}"," ","}",";">>

LetAddTwo ==
  <<"l","e","t"," ","a","d","d","T","w","o"," ","="," ","n","e","w","A","d",
    "d","e","r","(","2",")",";">>

CallAddTwo ==
  <<"a","d","d","T","w","o","(","3",")",";">>

LetH ==
  <<"l","e","t"," ","h"," ","="," ","f","n","(",")"," ","{"," ","l","e","t",
    " ","x"," ","="," ","2",";"," ","x"," ","}",";">>

CallH ==
  <<"h","(",")",";">>

ReadX ==
  <<"x",";">>

CallGWithoutArgument ==
  <<"g","(",")",";">>

CallHWithArgument ==
  <<"h","(","1",")",";">>

ClosureStatements ==
  {LetX, LetF, LetG, CallG, LetNewAdder, LetAddTwo, CallAddTwo, LetH, CallH,
   ReadX, CallGWithoutArgument, CallHWithArgument}

\* the statements that bind the names a statement itself refers to
Requires(u) ==
  CASE u \in {CallG, CallGWithoutArgument} -> {LetG}
    [] u \in {CallH, CallHWithArgument} -> {LetH}
    [] u = LetAddTwo -> {LetNewAdder}
    [] u = CallAddTwo -> {LetAddTwo}
    [] u = ReadX -> {LetX}
    [] OTHER -> {}

\* A statement is typed once, after the statements it requires.
TypeStatement ==
  \E u \in ClosureStatements :
    /\ \A i \in DOMAIN units : units[i] # u
    /\ \A r \in Requires(u) : \E i \in DOMAIN units : units[i] = r
    /\ TypeUnit(u, MaxStatements)

NextClosures ==
  \/ TypeStatement
  \/ StartParse
  \/ ParseRound
  \/ ParseReturn
  \/ Evaluate

SpecClosures == Init /\ [][NextClosures]_vars

(***************************************************************************)
(* SpecReturns: the lines are sequences of statements in which `return` is *)
(* executed inside conditionals: as the value of a let, as an argument, as *)
(* an operand, and at some depth of the conditionals of a function body.   *)
(***************************************************************************)
LetA ==
  <<"l","e","t"," ","a"," ","="," ","i","f"," ","(","t","r","u","e",")"," ",
    "{"," ","r","e","t","u","r","n"," ","1",";"," ","}",";">>

LetId ==
  <<"l","e","t"," ","i","d"," ","="," ","f","n","(","v",")"," ","{"," ","v",
    " ","}",";">>

CallIdWithReturn ==
  <<"i","d","(","i","f"," ","(","t","r","u","e",")"," ","{"," ","r","e","t",
    "u","r","n"," ","1",";"," ","}",")",";">>

ReturnOfReturn ==
  <<"r","e","t","u","r","n"," ","i","f"," ","(","t","r","u","e",")"," ","{",
    " ","r","e","t","u","r","n"," ","1",";"," ","}",";">>

ReturnPlusOne ==
  <<"i","f"," ","(","t","r","u","e",")"," ","{"," ","r","e","t","u","r","n",
    " ","1",";"," ","}"," ","+"," ","1",";">>

CallN ==
  <<"n","(",")",";">>

LetK ==
  <<"l","e","t"," ","k"," ","="," ","f","n","(",")"," ","{"," ","n","(",")",
    ";"," ","7"," ","}",";">>

CallK ==
  <<"k","(",")",";">>

NestedOpen ==
  <<"l","e","t"," ","n"," ","="," ","f","n","(",")"," ","{"," ">>

NestedIf ==
  <<"i","f"," ","(","t","r","u","e",")"," ","{"," ">>

NestedReturn ==
  <<"r","e","t","u","r","n"," ","1",";"," ","l","e","t"," ","m"," ","="," ",
    "2",";"," ">>

NestedEndIf ==
  <<"}"," ","l","e","t"," ","m"," ","="," ","2",";"," ">>

NestedClose ==
  <<"9"," ","}",";">>

\* the statements of a function body that execute return 1 inside d
\* conditionals, each block going on with let m = 2 after it
RECURSIVE NestedBody(_)
NestedBody(d) ==
  IF d = 0 THEN NestedReturn
  ELSE NestedIf \o NestedBody(d - 1) \o NestedEndIf

LetNested(d) == NestedOpen \o NestedBody(d) \o NestedClose

NestedFunctions == {LetNested(d) : d \in 1..MaxReturnDepth}

ReturnStatements ==
  {LetA, LetId, CallIdWithReturn, ReturnOfReturn, ReturnPlusOne, CallN, LetK,
   CallK} \cup NestedFunctions

\* the names the statement refers to are bound by statements of the line
ReturnStatementBound(u) ==
  CASE u = CallIdWithReturn -> \E i \in DOMAIN units : units[i] = LetId
    [] u = CallN -> \E i \in DOMAIN units : units[i] \in NestedFunctions
    [] u = CallK -> \E i \in DOMAIN units : units[i] = LetK
    [] OTHER -> TRUE

\* A statement is typed once, after the statements that bind its names.
TypeReturnStatement ==
  \E u \in ReturnStatements :
    /\ \A i \in DOMAIN units : units[i] # u
    /\ ReturnStatementBound(u)
    /\ TypeUnit(u, MaxReturnStatements)

NextReturns ==
  \/ TypeReturnStatement
  \/ StartParse
  \/ ParseRound
  \/ ParseReturn
  \/ Evaluate

SpecReturns == Init /\ [][NextReturns]_vars

(***************************************************************************)
(* SpecLets: the lines are sequences of statements that bind names, some   *)
(* to an error-value, and statements that fail, at the top level, in a     *)
(* block and in a function body, followed by further statements.           *)
(***************************************************************************)
LetXNope ==
  <<"l","e","t"," ","x"," ","="," ","n","o","p","e",";">>

LetXTwo ==
  <<"l","e","t"," ","x"," ","="," ","2",";">>

LetS ==
  <<"l","e","t"," ","s"," ","="," ","f","n","(",")"," ","{"," ","l","e","t",
    " ","x"," ","="," ","3",";"," ","x"," ","}",";">>

CallS ==
  <<"s","(",")",";">>

Fail ==
  <<"n","o","p","e",";">>

LetLate ==
  <<"l","e","t"," ","l","a","t","e"," ","="," ","4",";">>

IfFailBlock ==
  <<"i","f"," ","(","t","r","u","e",")"," ","{"," ","n","o","p","e",";"," ",
    "l","e","t"," ","s","k","i","p","p","e","d"," ","="," ","5",";"," ","}">>

LetE ==
  <<"l","e","t"," ","e"," ","="," ","f","n","(",")"," ","{"," ","n","o","p",
    "e",";"," ","l","e","t"," ","s","k","i","p","p","e","d"," ","="," ","6",
    ";"," ","}",";">>

CallE ==
  <<"e","(",")",";">>

\* the statements that bind a name in the environment of the session
TopLevelLets == {LetX, LetXTwo, LetS, LetLate, LetE}

\* the statements that evaluate to an error-value
FailingStatements == {LetXNope, Fail, IfFailBlock, CallE}

LetStatements ==
  TopLevelLets \cup FailingStatements \cup {CallS, ReadX}

\* the names the statement refers to are bound by statements of the line
LetStatementBound(u) ==
  CASE u = CallS -> \E i \in DOMAIN units : units[i] = LetS
    [] u = CallE -> \E i \in DOMAIN units : units[i] = LetE
    [] u = ReadX -> \E i \in DOMAIN units : units[i] \in {LetX, LetXTwo}
    [] OTHER -> TRUE

\* A statement is typed once, after the statements that bind its names.
TypeLetStatement ==
  \E u \in LetStatements :
    /\ \A i \in DOMAIN units : units[i] # u
    /\ LetStatementBound(u)
    /\ TypeUnit(u, MaxLetStatements)

NextLets ==
  \/ TypeLetStatement
  \/ StartParse
  \/ ParseRound
  \/ ParseReturn
  \/ Evaluate

SpecLets == Init /\ [][NextLets]_vars

(***************************************************************************)
(* SpecHashKeys: hashable objects are allocated and their hash keys taken. *)
(***************************************************************************)
\* "Hello World"
HelloWorld == <<72, 101, 108, 108, 111, 32, 87, 111, 114, 108, 100>>

\* "four"
Four == <<102, 111, 117, 114>>

Hashables ==
  <<Integer(-1), Integer(0), Integer(1), Integer(42), ObjTRUE, ObjFALSE,
    StringObject(<<>>), StringObject(<<97>>), StringObject(HelloWorld)>>

\* o := &object.Integer{...}, &object.Boolean{...} or &object.String{...}
NewHashable ==
  \E k \in DOMAIN Hashables :
    /\ Len(objects) < MaxObjects
    /\ objects' = Append(objects, Hashables[k])
    /\ keys' = Append(keys, NoHashKey)
    /\ UNCHANGED <<units, line, pc, p, program, last, printed, reparsed, heap,
                   result, given, returned, mem,
                   lexer, tokens, session>>

\* o.HashKey()
TakeHashKey ==
  \E ptr \in DOMAIN objects :
    /\ keys[ptr] = NoHashKey
    /\ keys' = [keys EXCEPT ![ptr] = HashKey(objects, ptr)]
    /\ UNCHANGED <<units, line, pc, p, program, last, printed, reparsed, heap,
                   result, objects, given, returned, mem,
                   lexer, tokens, session>>

NextHashKeys ==
  \/ NewHashable
  \/ TakeHashKey

SpecHashKeys == Init /\ [][NextHashKeys]_vars

(***************************************************************************)
(* SpecLen: the built-in len is called with some arguments.                *)
(***************************************************************************)
Arguments ==
  <<StringObject(<<>>), StringObject(Four), StringObject(HelloWorld),
    Array(<<>>), Array(<<Integer(1), StringObject(Four)>>),
    Integer(1), ObjTRUE, NULL,
    newError("unknown operator: %s%s", <<<<"-">>, <<"BOOLEAN">>>>), NilObject>>

\* an argument of the call is evaluated
PassArgument ==
  \E k \in DOMAIN Arguments :
    /\ returned.type = "nil"
    /\ Len(given) < MaxArguments
    /\ given' = Append(given, Arguments[k])
    /\ UNCHANGED <<units, line, pc, p, program, last, printed, reparsed, heap,
                   result, objects, keys, returned, mem,
                   lexer, tokens, session>>

\* builtins["len"].Fn(args...)
CallLen ==
  /\ returned.type = "nil"
  /\ returned' = len(given)
  /\ UNCHANGED <<units, line, pc, p, program, last, printed, reparsed, heap,
                 result, objects, keys, given, mem, lexer, tokens, session>>

NextLen ==
  \/ PassArgument
  \/ CallLen

SpecLen == Init /\ [][NextLen]_vars

(***************************************************************************)
(* SpecArrays: an array is created and the built-in functions push and     *)
(* tail are called on it and on the arrays they return.                    *)
(***************************************************************************)
\* the sequences of at most n elements, each element 1 or 2
RECURSIVE ElementLists(_)
ElementLists(n) ==
  IF n = 0 THEN {<<>>}
  ELSE ElementLists(n - 1) \cup
       {Append(l, Integer(v)) : l \in ElementLists(n - 1), v \in {1, 2}}

\* An array of some elements comes to be, its backing array full or with one
\* cell to spare.
CreateArray ==
  \E l \in ElementLists(MaxArrayLen), spare \in {0, 1} :
    /\ mem.objs = <<>>
    /\ LET Filled(r) ==
             NewArray([r.m EXCEPT !.cells[r.slice.array] =
                         [k \in DOMAIN @ |-> IF k <= Len(l) THEN l[k] ELSE @[k]]],
                      r.slice).m
       IN  mem' = Filled(make(mem, Len(l), Len(l) + spare))
    /\ UNCHANGED <<units, line, pc, p, program, last, printed, reparsed, heap,
                   result, objects, keys, given, returned, lexer, tokens,
                   session>>

\* a call of a built-in function is recorded with the memory before and
\* after it
Called(fn, arguments, r) ==
  [r.m EXCEPT !.calls = Append(@, [fn |-> fn, arguments |-> arguments,
                                   val |-> r.val,
                                   before |-> [cells |-> mem.cells,
                                               objs |-> mem.objs],
                                   after |-> [cells |-> r.m.cells,
                                              objs |-> r.m.objs]])]

\* the first argument of a call: an array of the memory, or an integer
FirstArguments ==
  <<Integer(1)>> \o [addr \in DOMAIN mem.objs |-> ArrayAt(addr)]

\* builtins["push"].Fn(first, x)
CallPush ==
  \E k \in DOMAIN FirstArguments, v \in {1, 2} :
    /\ mem.objs # <<>>
    /\ Len(mem.calls) < MaxArrayCalls
    /\ given' = <<FirstArguments[k], Integer(v)>>
    /\ returned' = push(mem, given').val
    /\ mem' = Called("push", given', push(mem, given'))
    /\ UNCHANGED <<units, line, pc, p, program, last, printed, reparsed, heap,
                   result, objects, keys, lexer, tokens, session>>

\* builtins["tail"].Fn(first)
CallTail ==
  \E k \in DOMAIN FirstArguments :
    /\ mem.objs # <<>>
    /\ Len(mem.calls) < MaxArrayCalls
    /\ given' = <<FirstArguments[k]>>
    /\ returned' = tail(mem, given').val
    /\ mem' = Called("tail", given', tail(mem, given'))
    /\ UNCHANGED <<units, line, pc, p, program, last, printed, reparsed, heap,
                   result, objects, keys, lexer, tokens, session>>

NextArrays ==
  \/ CreateArray
  \/ CallPush
  \/ CallTail

SpecArrays == Init /\ [][NextArrays]_vars

(***************************************************************************)
(* SpecFunctions: the lines are a function literal: fn( followed by some   *)
(* lexemes in the place of the parameter list and by ) { }.                *)
(***************************************************************************)
FunctionOpen == <<"f","n","(">>

FunctionClose == <<")"," ","{"," ","}">>

ParameterLexemes == {<<"x">>, <<"y">>, <<"1">>, <<",">>, <<"t","r","u","e">>}

TypeFunctionOpen ==
  /\ units = <<>>
  /\ TypeUnit(FunctionOpen, 1)

TypeParameterLexeme ==
  /\ units # <<>>
  /\ units[Len(units)] # FunctionClose
  /\ \E u \in ParameterLexemes : TypeUnit(u, 1 + MaxParameterLexemes)

TypeFunctionClose ==
  /\ units # <<>>
  /\ units[Len(units)] # FunctionClose
  /\ TypeUnit(FunctionClose, 2 + MaxParameterLexemes)

NextFunctions ==
  \/ TypeFunctionOpen
  \/ TypeParameterLexeme
  \/ TypeFunctionClose
  \/ StartParse
  \/ ParseRound
  \/ ParseReturn

SpecFunctions == Init /\ [][NextFunctions]_vars

(***************************************************************************)
(* SpecScanner: a source text is typed and NextToken is called on a Lexer  *)
(* of it again and again.                                                  *)
(***************************************************************************)
Quote == <<"\"">>

EmptyString == <<"\"", "\"">>

StringAB == <<"\"", "a", "b", "\"">>

ScannerUnits == {Quote, EmptyString, StringAB, <<"a">>, <<"1">>, <<"=","=">>}

TypeScannerUnit == \E u \in ScannerUnits : TypeUnit(u, MaxScannerUnits)

\* the text typed, without the space after its last unit
ScannerInput == SubSeq(line, 1, Len(line) - 1)

\* l := lexer.New(input)
StartScan ==
  /\ pc = "typing"
  /\ pc' = "scanning"
  /\ lexer' = NewLexer(ScannerInput)
  /\ UNCHANGED <<units, line, p, program, last, printed, reparsed, heap,
                 result, objects, keys, given, returned, mem, tokens, session>>

\* tok := l.NextToken()
ScanToken ==
  /\ pc = "scanning"
  /\ Len(tokens) < MaxTokens
  /\ tokens' = Append(tokens, [before |-> lexer, tok |-> NextToken(lexer).tok])
  /\ lexer' = NextToken(lexer).l
  /\ UNCHANGED <<units, line, pc, p, program, last, printed, reparsed, heap,
                 result, objects, keys, given, returned, mem, session>>

NextScanner ==
  \/ TypeScannerUnit
  \/ StartScan
  \/ ScanToken

SpecScanner == Init /\ [][NextScanner]_vars

(***************************************************************************)
(* SpecSession: a session of several lines, each parsed and, when it has   *)
(* no diagnostics, evaluated in the environment of the session.            *)
(***************************************************************************)
BadLet ==
  <<"l","e","t"," ","y"," ","1","0",";">>

LetXTwoBadLet ==
  <<"l","e","t"," ","x"," ","="," ","2",";"," ","l","e","t"," ","y"," ","1",
    "0",";">>

SessionLines == {LetX, LetXTwo, ReadX, BadLet, LetXTwoBadLet}

TypeLine == \E u \in SessionLines : TypeUnit(u, 1)

\* The loop of Start goes on to its next round, after the diagnostics of the
\* line were printed or the line was evaluated: line, err := rl.Readline()
Readline ==
  /\ \/ pc = "evaluated"
     \/ pc = "parsed" /\ p.errors # <<>>
  /\ Len(session) + 1 < MaxLines
  /\ session' = Append(session, [line |-> line, errors |-> p.errors,
                                 envs |-> heap.envs, result |-> result])
  /\ units' = <<>>
  /\ line' = <<>>
  /\ pc' = "typing"
  /\ p' = NewParser(NewLexer(<<>>))
  /\ program' = <<>>
  /\ last' = NoRound
  /\ printed' = <<>>
  /\ result' = NilObject
  /\ UNCHANGED <<reparsed, heap, objects, keys, given, returned, mem, lexer,
                 tokens>>

NextSession ==
  \/ TypeLine
  \/ StartParse
  \/ ParseRound
  \/ ParseReturn
  \/ Evaluate
  \/ Readline

SpecSession == Init /\ [][NextSession]_vars

(***************************************************************************)
(* SpecCalls: the lines define the functions t, u, v and w and then call   *)
(* them with arguments that are calls or names without binding.            *)
(***************************************************************************)
CallDefinitions ==
  <<"l","e","t"," ","t"," ","="," ","f","n","(","a",","," ","b",")"," ","{",
    " ","a"," ","}",";"," ","l","e","t"," ","u"," ","="," ","f","n","(",")",
    " ","{"," ","1"," ","}",";"," ","l","e","t"," ","v"," ","="," ","f","n",
    "(",")"," ","{"," ","2"," ","}",";"," ","l","e","t"," ","w"," ","="," ",
    "f","n","(",")"," ","{"," ","t"," ","}",";">>

CallBoth ==
  <<"t","(","u","(",")",","," ","v","(",")",")",";">>

CallFirstFails ==
  <<"t","(","n","o","p","e",","," ","v","(",")",")",";">>

CallSecondFails ==
  <<"t","(","u","(",")",","," ","n","o","p","e",")",";">>

CallBothFail ==
  <<"t","(","n","o","p","e",","," ","n","o","n","e",")",";">>

CallMiddleFails ==
  <<"t","(","u","(",")",","," ","n","o","p","e",","," ","v","(",")",")",";">>

CalleeFails ==
  <<"n","o","p","e","(","v","(",")",","," ","n","o","n","e",")",";">>

CalleeIsCall ==
  <<"w","(",")","(","v","(",")",","," ","u","(",")",")",";">>

CallStatements ==
  {CallBoth, CallFirstFails, CallSecondFails, CallBothFail, CallMiddleFails,
   CalleeFails, CalleeIsCall}

TypeCallDefinitions ==
  /\ units = <<>>
  /\ TypeUnit(CallDefinitions, 1)

TypeCallStatement ==
  /\ units # <<>>
  /\ \E u \in CallStatements : TypeUnit(u, 1 + MaxCallStatements)

NextCalls ==
  \/ TypeCallDefinitions
  \/ TypeCallStatement
  \/ StartParse
  \/ ParseRound
  \/ ParseReturn
  \/ Evaluate

SpecCalls == Init /\ [][NextCalls]_vars

(***************************************************************************)
(* SpecBlocks: the lines bind a name inside the blocks of conditionals, at *)
(* the top level and in the body of a function, and read it afterwards.    *)
(***************************************************************************)
IfLetA ==
  <<"i","f"," ","(","t","r","u","e",")"," ","{"," ","l","e","t"," ","a"," ",
    "="," ","1",";"," ","}">>

ElseLetA ==
  <<"i","f"," ","(","f","a","l","s","e",")"," ","{"," ","1"," ","}"," ","e",
    "l","s","e"," ","{"," ","l","e","t"," ","a"," ","="," ","2",";"," ","}">>

NestedLetA ==
  <<"i","f"," ","(","t","r","u","e",")"," ","{"," ","i","f"," ","(","t","r",
    "u","e",")"," ","{"," ","l","e","t"," ","a"," ","="," ","4",";"," ","}",
    " ","}">>

LetC ==
  <<"l","e","t"," ","c"," ","="," ","f","n","(",")"," ","{"," ","i","f"," ",
    "(","t","r","u","e",")"," ","{"," ","l","e","t"," ","a"," ","="," ","3",
    ";"," ","}"," ","a"," ","}",";">>

CallC ==
  <<"c","(",")",";">>

ReadA ==
  <<"a",";">>

BlockStatements == {IfLetA, ElseLetA, NestedLetA, LetC, CallC, ReadA}

\* A statement is typed once, the call of c after its definition.
TypeBlockStatement ==
  \E u \in BlockStatements :
    /\ \A i \in DOMAIN units : units[i] # u
    /\ u = CallC => \E i \in DOMAIN units : units[i] = LetC
    /\ TypeUnit(u, MaxBlockStatements)

NextBlocks ==
  \/ TypeBlockStatement
  \/ StartParse
  \/ ParseRound
  \/ ParseReturn
  \/ Evaluate

SpecBlocks == Init /\ [][NextBlocks]_vars

(***************************************************************************)
(* SpecBooleans: the lines compare, with == and !=, expressions that yield *)
(* booleans: literals, negations and comparisons of integers.              *)
(***************************************************************************)
NotTrue ==
  <<"!","t","r","u","e">>

NotFalse ==
  <<"!","f","a","l","s","e">>

NotFive ==
  <<"!","5">>

OneLessTwo ==
  <<"(","1"," ","<"," ","2",")">>

OneGreaterTwo ==
  <<"(","1"," ",">"," ","2",")">>

OneEqualsOne ==
  <<"(","1"," ","=","="," ","1",")">>

OneDiffersOne ==
  <<"(","1"," ","!","="," ","1",")">>

TrueEqualsFalse ==
  <<"(","t","r","u","e"," ","=","="," ","f","a","l","s","e",")">>

TrueExpressions == {True, NotFalse, OneLessTwo, OneEqualsOne}

FalseExpressions ==
  {False, NotTrue, NotFive, OneGreaterTwo, OneDiffersOne, TrueEqualsFalse}

BooleanExpressions == TrueExpressions \cup FalseExpressions

EqualityOperators == {<<"=","=">>, <<"!","=">>}

TypeBooleanExpression ==
  /\ Len(units) % 2 = 0
  /\ \E u \in BooleanExpressions : TypeUnit(u, MaxBooleanUnits)

TypeEqualityOperator ==
  /\ Len(units) % 2 = 1
  /\ \E u \in EqualityOperators : TypeUnit(u, MaxBooleanUnits - 1)

NextBooleans ==
  \/ TypeBooleanExpression
  \/ TypeEqualityOperator
  \/ StartParse
  \/ ParseRound
  \/ ParseReturn
  \/ Evaluate

SpecBooleans == Init /\ [][NextBooleans]_vars

(***************************************************************************)
(* SpecRecursion: the lines define a closure that is stored in the         *)
(* environment it has captured and that calls itself, and call it.         *)
(***************************************************************************)
LetCount ==
  <<"l","e","t"," ","c"," ","="," ","f","n","(","n",")"," ","{"," ","i","f",
    " ","(","n"," ","<"," ","1",")"," ","{"," ","0"," ","}"," ","e","l","s",
    "e"," ","{"," ","c","(","n"," ","-"," ","1",")"," ","}"," ","}",";">>

CountTwo ==
  <<"c","(","2",")",";">>

CountOne ==
  <<"c","(","1",")",";">>

LetD ==
  <<"l","e","t"," ","d"," ","="," ","c",";">>

CallD ==
  <<"d","(","1",")",";">>

RecursionStatements == {LetCount, CountTwo, CountOne, LetD, CallD}

\* A statement is typed once.
TypeRecursionStatement ==
  \E u \in RecursionStatements :
    /\ \A i \in DOMAIN units : units[i] # u
    /\ TypeUnit(u, MaxRecursionStatements)

NextRecursion ==
  \/ TypeRecursionStatement
  \/ StartParse
  \/ ParseRound
  \/ ParseReturn
  \/ Evaluate

SpecRecursion == Init /\ [][NextRecursion]_vars

(***************************************************************************)
(* Helpers of the properties of the parser.                                *)
(***************************************************************************)
RECURSIVE Flatten(_)
RECURSIVE FlattenArgs(_)

\* the lexemes of an expression, in source order
Flatten(node) ==
  CASE node.kind = "Identifier" -> <<node.Value>>
    [] node.kind = "IntegerLiteral" -> <<node.Token.Literal>>
    [] node.kind = "PrefixExpression" ->
         <<node.Operator>> \o Flatten(node.Right)
    [] node.kind = "InfixExpression" ->
         Flatten(node.Left) \o <<node.Operator>> \o Flatten(node.Right)
    [] node.kind = "CallExpression" ->
         Flatten(node.Function) \o <<<<"(">>>> \o FlattenArgs(node.Arguments)
           \o <<<<")">>>>
    [] OTHER -> <<>>

FlattenArgs(args) ==
  IF args = <<>> THEN <<>>
  ELSE IF Len(args) = 1 THEN Flatten(args[1])
       ELSE Flatten(args[1]) \o <<<<",">>>> \o FlattenArgs(Tail(args))

\* the precedence table as the specification states it
LevelOfOperator(op) ==
  CASE op \in {<<"=","=">>, <<"!","=">>} -> 1
    [] op \in {<<"<">>, <<">">>}         -> 2
    [] op \in {<<"+">>, <<"-">>}         -> 3
    [] op \in {<<"*">>, <<"/">>}         -> 4

RECURSIVE GroupedByPrecedence(_)
\* Every operator node has, as operands, only what binds at least as
\* strongly (left operand) or strictly more strongly (right operand).
GroupedByPrecedence(node) ==
  CASE node.kind = "InfixExpression" ->
         /\ node.Left.kind = "InfixExpression" =>
              LevelOfOperator(node.Left.Operator)
                >= LevelOfOperator(node.Operator)
         /\ node.Right.kind = "InfixExpression" =>
              LevelOfOperator(node.Right.Operator)
                > LevelOfOperator(node.Operator)
         /\ GroupedByPrecedence(node.Left)
         /\ GroupedByPrecedence(node.Right)
    [] node.kind = "PrefixExpression" ->
         /\ node.Right.kind # "InfixExpression"
         /\ GroupedByPrecedence(node.Right)
    [] node.kind = "CallExpression" ->
         /\ node.Function.kind \notin {"InfixExpression", "PrefixExpression"}
         /\ GroupedByPrecedence(node.Function)
         /\ \A i \in 1..Len(node.Arguments) :
              GroupedByPrecedence(node.Arguments[i])
    [] node.kind \in {"Identifier", "IntegerLiteral"} -> TRUE
    [] OTHER -> FALSE

RECURSIVE Shape(_)
\* a node without its tokens: kinds, names, operators, values and children
Shape(node) ==
  CASE node.kind = "nil" -> Nil
    [] node.kind = "LetStatement" ->
         [kind |-> node.kind, Name |-> node.Name.Value,
          Value |-> Shape(node.Value)]
    [] node.kind = "ReturnStatement" ->
         [kind |-> node.kind, Value |-> Shape(node.Value)]
    [] node.kind = "ExpressionStatement" ->
         [kind |-> node.kind, Expression |-> Shape(node.Expression)]
    [] node.kind \in {"Identifier", "IntegerLiteral", "Boolean"} ->
         [kind |-> node.kind, Value |-> node.Value]
    [] node.kind = "PrefixExpression" ->
         [kind |-> node.kind, Operator |-> node.Operator,
          Right |-> Shape(node.Right)]
    [] node.kind = "InfixExpression" ->
         [kind |-> node.kind, Operator |-> node.Operator,
          Left |-> Shape(node.Left), Right |-> Shape(node.Right)]
    [] node.kind = "IfExpression" ->
         [kind |-> node.kind, Condition |-> Shape(node.Condition),
          Consequence |-> Shape(node.Consequence),
          Alternative |-> Shape(node.Alternative)]
    [] node.kind = "BlockStatement" ->
         [kind |-> node.kind,
          Statements |-> [i \in 1..Len(node.Statements) |->
                            Shape(node.Statements[i])]]
    [] node.kind = "FunctionLiteral" ->
         [kind |-> node.kind,
          Parameters |-> [i \in 1..Len(node.Parameters) |->
                            node.Parameters[i].Value],
          Body |-> Shape(node.Body)]
    [] node.kind = "CallExpression" ->
         [kind |-> node.kind, Function |-> Shape(node.Function),
          Arguments |-> [i \in 1..Len(node.Arguments) |->
                           Shape(node.Arguments[i])]]

ShapeAll(statements) ==
  [i \in 1..Len(statements) |-> Shape(statements[i])]

IsPrefix(s, t) == Len(s) <= Len(t) /\ SubSeq(t, 1, Len(s)) = s

Parsed == pc \in {"parsed", "reparsed"}

(***************************************************************************)
(* C1.  An expression of operands, prefix operators, binary operators and  *)
(* calls that parses without diagnostics is one expression statement whose *)
(* tree keeps the lexemes in source order and groups them by the           *)
(* precedence table: a higher level binds first, equal levels group to the *)
(* left, prefix binds tighter than every binary operator and a call        *)
(* tighter than a prefix.                                                  *)
(***************************************************************************)
C1_PrecedenceGrouping ==
  (Parsed /\ p.errors = <<>>) =>
    /\ Len(program) = 1
    /\ program[1].kind = "ExpressionStatement"
    /\ Flatten(program[1].Expression) = units
    /\ GroupedByPrecedence(program[1].Expression)

\* "- 1 + a * 1" has parsed as ((-1) + (a * 1)) and "a - 1 - a" is typed
C1_Witness ==
  /\ Parsed
  /\ p.errors = <<>>
  /\ units = <<<<"-">>, <<"1">>, <<"+">>, <<"a">>, <<"*">>, <<"1">>>>
  /\ program[1].Expression.Left.kind = "PrefixExpression"
  /\ program[1].Expression.Operator = <<"+">>
  /\ program[1].Expression.Right.Operator = <<"*">>

(***************************************************************************)
(* C2.  Round trip: a program parsed without diagnostics, printed with     *)
(* Program.String() and parsed again gives no diagnostics and a            *)
(* structurally identical AST.                                             *)
(***************************************************************************)
C2_RoundTrip ==
  pc = "reparsed" =>
    /\ reparsed.errors = <<>>
    /\ ~reparsed.hang
    /\ ShapeAll(reparsed.statements) = ShapeAll(program)

(***************************************************************************)
(* C3.  A round of the statement loop that appends a diagnostic adds no    *)
(* node to the statement list.                                             *)
(***************************************************************************)
C3_MalformedContributesNoNode ==
  (last.valid /\ Len(p.errors) > Len(last.errors)) =>
    program = last.program

(***************************************************************************)
(* C4.  Diagnostics accumulate: a round of the statement loop only appends *)
(* to the error list and moves on in the source text; a let-statement that *)
(* yields no node, or no value, appends at least one diagnostic; and       *)
(* "let = 5; let y 10;" ends with at least two distinct diagnostics.       *)
(***************************************************************************)
C4_ErrorsAccumulate ==
  /\ last.valid =>
       /\ IsPrefix(last.errors, p.errors)
       /\ p.l.readPosition > last.readPosition
       /\ (last.tok.Type = "LET" /\ last.node = Nil) =>
            Len(p.errors) > Len(last.errors)
  /\ (Parsed /\ units = << <<"l","e","t"," ","="," ","5",";">>,
                           <<"l","e","t"," ","y"," ","1","0",";">> >>) =>
       Cardinality({p.errors[i] : i \in 1..Len(p.errors)}) >= 2

\* "let = 5; let y 10;" has been parsed to the end, its last round being
\* the expression statement "10;" after the second malformed let
C4_Witness ==
  /\ pc = "parsed"
  /\ units = << <<"l","e","t"," ","="," ","5",";">>,
                <<"l","e","t"," ","y"," ","1","0",";">> >>
  /\ Len(p.errors) >= 2

(***************************************************************************)
(* Helpers of the properties of the evaluator.                             *)
(***************************************************************************)
\* the evaluation of the line has ended, with a value or with a panic
Finished == pc \in {"evaluated", "panicked"}

IsInteger(o, n) == o.type = "INTEGER" /\ o.Value = n

IsBoolean(o, b) == o.type = "BOOLEAN" /\ o.Value = b

IsError(o, format, a) ==
  /\ o.type = "ERROR"
  /\ o.Message.format = format
  /\ o.Message.a = a

\* the last statement typed
LastUnit == units[Len(units)]

\* the applications of closures in the history of the heap
Applications ==
  {i \in DOMAIN heap.calls : heap.calls[i].fn.type = "FUNCTION"}

\* the environment that was current when the function object was created
DefiningEnv(fn) ==
  (CHOOSE m \in {heap.made[i] : i \in DOMAIN heap.made} : m.addr = fn.addr).env

\* the environment created by the application c
CallEnv(c) == Len(c.before) + 1

\* two values are the same value: the same integer, boolean or null, or the
\* same function or return-value object
SameValue(a, b) ==
  /\ a.type = b.type
  /\ IF a.type \in {"INTEGER", "BOOLEAN"} THEN a.Value = b.Value
     ELSE IF a.type \in {"FUNCTION", "RETURN_VALUE"} THEN a.addr = b.addr
     ELSE TRUE

\* two environments hold exactly the same bindings
SameBindings(e1, e2) ==
  /\ e1.outer = e2.outer
  /\ DOMAIN e1.store = DOMAIN e2.store
  /\ \A n \in DOMAIN e1.store : SameValue(e1.store[n], e2.store[n])

(***************************************************************************)
(* The claims about the evaluator.                                         *)
(***************************************************************************)
\* C5: lexical closures.  The environment created by applying a closure has
\* as its outer link the environment that was current when the function
\* literal was evaluated; so g(2), whose body calls f, never yields the 2
\* that the caller binds to x but the x of the scope that defines f, and
\* addTwo(3), applied after newAdder(2) has returned, yields 5 (unless an
\* earlier statement of the line ended it with an error-value).
C5_LexicalClosures ==
  /\ \A i \in Applications :
       LET c == heap.calls[i]
       IN  /\ Len(c.after) >= CallEnv(c)
           /\ c.after[CallEnv(c)].outer = DefiningEnv(c.fn)
  /\ pc = "evaluated" /\ LastUnit = CallG /\ result.type = "INTEGER"
       => result.Value = 1
  /\ pc = "evaluated" /\ LastUnit = CallAddTwo /\ ~isError(result)
       => IsInteger(result, 5)

\* C5 witness: x is 1 where f is defined and 2 in the caller g; g(2) is 1,
\* and f was applied from an environment that is not the one it captured.
C5_Witness ==
  /\ pc = "evaluated"
  /\ units = <<LetX, LetF, LetG, CallG>>
  /\ IsInteger(result, 1)
  /\ \E i \in Applications :
       LET c == heap.calls[i]
       IN  /\ c.caller # c.fn.Env
           /\ <<"x">> \in DOMAIN c.after[c.caller].store
           /\ IsInteger(c.after[c.caller].store[<<"x">>], 2)
           /\ IsInteger(c.after[c.fn.Env].store[<<"x">>], 1)

\* C6: call-local bindings do not leak.  The parameters of an application
\* are bound in the environment created by it, and every environment that
\* existed before the application holds after it exactly the bindings it
\* held before; so x, read after a call of h that binds x to 2 in its body,
\* is still 1 (unless an earlier statement of the line ended it with an
\* error-value).
C6_CallLocalBindings ==
  /\ \A i \in Applications :
       LET c == heap.calls[i]
       IN  /\ \A e \in DOMAIN c.before :
                e \in DOMAIN c.after /\ SameBindings(c.before[e], c.after[e])
           /\ \A k \in DOMAIN c.fn.Parameters :
                k <= Len(c.args) =>
                  c.fn.Parameters[k].Value \in DOMAIN c.after[CallEnv(c)].store
  /\ pc = "evaluated" /\ LastUnit = ReadX /\ ~isError(result)
       => IsInteger(result, 1)

\* C6 witness: h() bound x to 2 in its own environment and returned 2, and
\* the x read afterwards is 1.
C6_Witness ==
  /\ pc = "evaluated"
  /\ units = <<LetX, LetH, CallH, ReadX>>
  /\ IsInteger(result, 1)
  /\ Len(heap.calls) = 1
  /\ IsInteger(heap.calls[1].val, 2)
  /\ IsInteger(heap.envs[2].store[<<"x">>], 2)

\* an integer is compared with a boolean: the line is i op b or b op i
IntegerWithBoolean(op) ==
  /\ Finished
  /\ Len(units) = 3
  /\ units[2] = op
  /\ \/ units[1] \in IntegerValues /\ units[3] \in BooleanValues
     \/ units[1] \in BooleanValues /\ units[3] \in IntegerValues

\* the names of the types of the two operands of the line
OperandTypes ==
  IF units[1] \in IntegerValues THEN <<"INTEGER", "BOOLEAN">>
  ELSE <<"BOOLEAN", "INTEGER">>

\* C7 as stated: an integer compared with a boolean by == evaluates to an
\* error-value whose message is the type mismatch naming both types.
C7_EqualsIsTypeMismatch ==
  IntegerWithBoolean(<<"=", "=">>) =>
    IsError(result, "type mismatch: %s %s %s",
            <<<<OperandTypes[1]>>, <<"=", "=">>, <<OperandTypes[2]>>>>)

\* C7 as amended: an integer compared with a boolean by == evaluates to the
\* boolean false and by != to the boolean true; with any other binary
\* operator it evaluates to the error-value whose message is the type
\* mismatch naming both types.
C7_EqualsIsFalse ==
  /\ IntegerWithBoolean(<<"=", "=">>) => IsBoolean(result, FALSE)
  /\ IntegerWithBoolean(<<"!", "=">>) => IsBoolean(result, TRUE)
  /\ \A op \in InfixOperators \ {<<"=", "=">>, <<"!", "=">>} :
       IntegerWithBoolean(op) =>
         IsError(result, "type mismatch: %s %s %s",
                 <<<<OperandTypes[1]>>, op, <<OperandTypes[2]>>>>)

\* C7 witness: 1 == true has been evaluated, to false.
C7_Witness ==
  /\ pc = "evaluated"
  /\ units = <<One, <<"=", "=">>, True>>
  /\ IsBoolean(result, FALSE)

\* C8: an integer divided by zero evaluates to an error-value, and the
\* evaluator does not panic.
C8_DivisionByZeroIsError ==
  /\ Finished
  /\ Len(units) = 3
  /\ units[1] \in IntegerValues
  /\ units[2] = <<"/">>
  /\ units[3] = Zero
  => pc = "evaluated" /\ result.type = "ERROR"

\* C9: a closure applied to a number of arguments that is not its number of
\* parameters yields the error-value "wrong number of arguments", without
\* evaluating the body and without a panic.
C9_WrongNumberOfArguments ==
  \A i \in Applications :
    LET c == heap.calls[i]
    IN  Len(c.args) # Len(c.fn.Parameters) =>
          /\ IsError(c.val, "wrong number of arguments", <<>>)
          /\ c.evals = 0

\* C10: the evaluation of an expression yields a runtime value, never the
\* absent (nil) result, and no operator panics on an absent operand.
C10_EvalIsTotal ==
  Finished =>
    /\ result.type # "nil"
    /\ ~(result.type = "PANIC" /\ result.Message = NilDereference.Message)

\* C11: no environment binds a name to a RETURN_VALUE object, also when the
\* value of a let or an argument of a call is a conditional whose block
\* executes return.
C11_NoReturnValueBound ==
  \A e \in DOMAIN heap.envs :
    \A n \in DOMAIN heap.envs[e].store :
      heap.envs[e].store[n].type # "RETURN_VALUE"

\* C12: the result of the program and the result of every application of a
\* function are never a RETURN_VALUE object, and no operator is applied to a
\* RETURN_VALUE operand (which its error-value would name).
C12_ReturnValueStaysInside ==
  /\ Finished => result.type # "RETURN_VALUE"
  /\ \A i \in DOMAIN heap.calls : heap.calls[i].val.type # "RETURN_VALUE"
  /\ Finished /\ result.type = "ERROR" =>
       \A k \in DOMAIN result.Message.a :
         result.Message.a[k] # <<"RETURN_VALUE">>

\* the applications of the functions that a let-statement has bound to name
ApplicationsOf(name) ==
  {i \in Applications :
     \E j \in DOMAIN heap.lets :
       /\ heap.lets[j].name = name
       /\ heap.lets[j].val.type = "FUNCTION"
       /\ heap.lets[j].val.addr = heap.calls[i].fn.addr}

ValueType(u) ==
  CASE u \in IntegerValues -> "INTEGER"
    [] u \in BooleanValues -> "BOOLEAN"
    [] u = IfWithoutValue -> "NULL"
    [] u = FunctionValue -> "FUNCTION"
    [] OTHER -> "nil"

\* the line is v op w for two units that evaluate to runtime values
BinaryLine ==
  /\ Finished
  /\ Len(units) = 3
  /\ units[1] \in Values /\ ValueType(units[1]) # "nil"
  /\ units[3] \in Values /\ ValueType(units[3]) # "nil"

ArithmeticOperators ==
  {<<"+">>, <<"-">>, <<"*">>, <<"/">>, <<"<">>, <<">">>}

\* C14: with an operator among + - * / < >, two operands of different
\* runtime types evaluate to the error-value "type mismatch: <left type>
\* <operator> <right type>", and two operands of one type that is not
\* INTEGER to "unknown operator: <type> <operator> <type>".
C14_TypeMismatch ==
  BinaryLine /\ units[2] \in ArithmeticOperators =>
    LET l == ValueType(units[1])
        r == ValueType(units[3])
    IN  /\ l # r =>
             IsError(result, "type mismatch: %s %s %s",
                     <<<<l>>, units[2], <<r>>>>)
        /\ l = r /\ l # "INTEGER" =>
             IsError(result, "unknown operator: %s %s %s",
                     <<<<l>>, units[2], <<r>>>>)

\* C14 witness: 5 + true has been evaluated to "type mismatch: INTEGER +
\* BOOLEAN".
C14_Witness ==
  /\ pc = "evaluated"
  /\ units = <<Five, <<"+">>, True>>
  /\ IsError(result, "type mismatch: %s %s %s",
             <<<<"INTEGER">>, <<"+">>, <<"BOOLEAN">>>>)

\* C16: for a runtime value v, !v is the true object exactly when v is null
\* or false, and the false object for every other value, the integer 0
\* included: so is the result of the line ! v, and so is the bang operator
\* applied to the object that any line has evaluated to.
C16_Truthiness ==
  /\ /\ Finished
     /\ Len(units) = 2
     /\ units[1] = <<"!">>
     /\ units[2] \in Values /\ ValueType(units[2]) # "nil"
     => /\ pc = "evaluated"
        /\ IsBoolean(result, units[2] \in {False, IfWithoutValue})
  /\ pc = "evaluated" /\ result.type # "nil" =>
       IsBoolean(evalBangOperatorExpression(result),
                 result.type = "NULL" \/ IsBoolean(result, FALSE))

\* C16 witness: !0 has been evaluated to false.
C16_Witness ==
  /\ pc = "evaluated"
  /\ units = <<<<"!">>, Zero>>
  /\ IsBoolean(result, FALSE)

\* the environments of the chain of e, from e outward
RECURSIVE Chain(_)
Chain(e) == IF e = 0 THEN <<>> ELSE <<e>> \o Chain(heap.envs[e].outer)

\* the names bound in some environment, and one that none binds
SomeNames ==
  UNION {DOMAIN heap.envs[e].store : e \in DOMAIN heap.envs} \cup {<<"z">>}

\* C15: an identifier evaluates to its binding in the innermost environment
\* of the chain that binds it, and to the error-value "identifier not found:
\* <name>" when no environment of the chain binds it: in every environment
\* of the heap and for every name, and so in the lines: h(), whose body
\* binds x to 2, yields 2 although the session binds x to 1, and g(2), whose
\* callee f reads an x that no environment of its chain binds, yields the
\* error-value.
C15_IdentifierLookup ==
  /\ \A e \in DOMAIN heap.envs : \A n \in SomeNames :
       LET r == evalIdentifier([kind |-> "Identifier", Value |-> n], e, heap)
           ch == Chain(e)
           binders == {i \in DOMAIN ch : n \in DOMAIN heap.envs[ch[i]].store}
           first == CHOOSE i \in binders : \A j \in binders : i <= j
       IN  /\ r.st = heap
           /\ IF binders = {}
              THEN IsError(r.val, "identifier not found: %s", <<n>>)
              ELSE SameValue(r.val, heap.envs[ch[first]].store[n])
  /\ pc = "evaluated" /\ LastUnit = CallH /\ ~isError(result)
       => IsInteger(result, 2)
  /\ /\ pc = "evaluated" /\ LastUnit = CallG
     /\ \E i \in DOMAIN units : units[i] = LetF
     /\ \A i \in DOMAIN units : units[i] # LetX
     => IsError(result, "identifier not found: %s", <<<<"x">>>>)

\* C15 witness: h() has yielded the x = 2 of its own environment, whose
\* outer environment binds x to 1.
C15_Witness ==
  /\ pc = "evaluated"
  /\ units = <<LetX, LetH, CallH>>
  /\ IsInteger(result, 2)
  /\ IsInteger(heap.envs[2].store[<<"x">>], 2)
  /\ heap.envs[2].outer = 1
  /\ IsInteger(heap.envs[1].store[<<"x">>], 1)

\* the let-statements executed so far whose value was an error-value
FailedLets == {j \in DOMAIN heap.lets : isError(heap.lets[j].val)}

\* the binding of name in the environment e of the heap envs is val
BindsTo(envs, e, name, val) ==
  /\ name \in DOMAIN envs[e].store
  /\ SameValue(envs[e].store[name], val)

\* the let-statement l changed nothing but the binding of its name in its
\* own environment
OnlyOwnBinding(l) ==
  /\ Len(l.after) = Len(l.mid)
  /\ \A e \in DOMAIN l.mid :
       /\ l.after[e].outer = l.mid[e].outer
       /\ DOMAIN l.after[e].store =
            DOMAIN l.mid[e].store \cup (IF e = l.env THEN {l.name} ELSE {})
       /\ \A n \in DOMAIN l.mid[e].store :
            (e # l.env \/ n # l.name) =>
              SameValue(l.after[e].store[n], l.mid[e].store[n])

\* C17: a let-statement whose value is an error-value leaves every
\* environment as it was (the name is neither created nor overwritten) and
\* the error-value is its result, so the program ends with it; any other
\* let-statement binds the name to the value in the current environment and
\* changes no other binding of any environment: let x = 2 replaces the
\* binding of x, and the let x = 3 of the body of s leaves the x of the
\* session alone.
C17_LetBindsOrFails ==
  /\ \A j \in DOMAIN heap.lets :
       IF j \in FailedLets
       THEN /\ Len(heap.lets[j].after) = Len(heap.lets[j].mid)
            /\ \A e \in DOMAIN heap.lets[j].mid :
                 SameBindings(heap.lets[j].mid[e], heap.lets[j].after[e])
       ELSE /\ BindsTo(heap.lets[j].after, heap.lets[j].env,
                       heap.lets[j].name, heap.lets[j].val)
            /\ OnlyOwnBinding(heap.lets[j])
  /\ pc = "evaluated" /\ FailedLets # {} =>
       /\ IsError(result, "identifier not found: %s", <<<<"n","o","p","e">>>>)
       /\ FailedLets = {Len(heap.lets)}
  /\ pc = "evaluated" /\ Len(units) >= 2
       /\ units[1] = LetX /\ units[2] = LetXNope =>
         BindsTo(heap.envs, 1, <<"x">>, Integer(1))
  /\ pc = "evaluated" /\ units = <<LetX, LetXTwo, ReadX>> =>
       IsInteger(result, 2)
  /\ pc = "evaluated" /\ units = <<LetX, LetS, CallS, ReadX>> =>
       IsInteger(result, 1)

\* let x = 1; let x = nope; has run: the error is the result and x is
\* still 1; and in another line the body of s has bound its own x
C17_Witness ==
  /\ pc = "evaluated"
  /\ units = <<LetX, LetXNope>>
  /\ FailedLets = {2}
  /\ isError(result)
  /\ BindsTo(heap.envs, 1, <<"x">>, Integer(1))

\* the index of the first statement of the line that fails, 0 when none does
FirstFailure ==
  IF \E i \in DOMAIN units : units[i] \in FailingStatements
  THEN CHOOSE i \in DOMAIN units :
         /\ units[i] \in FailingStatements
         /\ \A k \in 1..(i - 1) : units[k] \notin FailingStatements
  ELSE 0

\* the let-statements of the session that have bound their name
SessionLets ==
  {j \in DOMAIN heap.lets : heap.lets[j].env = 1 /\ j \notin FailedLets}

\* the let-statements of the line in front of the statement i
LetsBefore(i) == {k \in 1..(i - 1) : units[k] \in TopLevelLets}

\* C18: the first statement of a program or of a block that yields an
\* error-value ends it with that error-value: the let skipped that follows
\* nope in the conditional block and in the body of e is never executed,
\* the application of e yields the error, and after the first failing
\* statement of the line no let-statement of the line is executed and none
\* of their names is bound; the result of the program is the error.
C18_ErrorStopsStatements ==
  /\ \A j \in DOMAIN heap.lets : heap.lets[j].name # <<"s","k","i","p","p","e","d">>
  /\ \A e \in DOMAIN heap.envs :
       <<"s","k","i","p","p","e","d">> \notin DOMAIN heap.envs[e].store
  /\ \A i \in ApplicationsOf(<<"e">>) :
       IsError(heap.calls[i].val, "identifier not found: %s",
               <<<<"n","o","p","e">>>>)
  /\ pc = "evaluated" /\ FirstFailure # 0 =>
       /\ IsError(result, "identifier not found: %s", <<<<"n","o","p","e">>>>)
       /\ Cardinality(SessionLets) = Cardinality(LetsBefore(FirstFailure))
       /\ \A k \in (FirstFailure + 1)..Len(units) :
            /\ units[k] = LetLate => <<"l","a","t","e">> \notin DOMAIN heap.envs[1].store
            /\ units[k] = LetE => <<"e">> \notin DOMAIN heap.envs[1].store
            /\ units[k] = LetS => <<"s">> \notin DOMAIN heap.envs[1].store
  /\ pc = "evaluated" /\ FirstFailure = 0 =>
       /\ ~isError(result)
       /\ Cardinality(SessionLets) = Cardinality(LetsBefore(Len(units) + 1))

\* a statement has failed in front of let late = 4, which was not executed,
\* and a block has failed in front of its let skipped
C18_Witness ==
  /\ pc = "evaluated"
  /\ units = <<LetX, IfFailBlock, LetLate>>
  /\ FirstFailure = 2
  /\ isError(result)
  /\ DOMAIN heap.envs[1].store = {<<"x">>}

\* the objects whose hash key has been taken
Hashed == {ptr \in DOMAIN objects : keys[ptr] # NoHashKey}

\* two objects of the same kind and of equal content
SameContent(a, b) == a.type = b.type /\ a.Value = b.Value

\* C19: the hash keys of two distinct hashable objects (integers, booleans,
\* strings) of the same kind and of equal content are equal, and the hash
\* keys of two integers or booleans that differ in kind or in content are
\* different: the integer 1 and the boolean true do not collide, nor do the
\* integer 0 and the boolean false.
C19_HashKeys ==
  \A i, j \in Hashed :
    i # j =>
      /\ SameContent(objects[i], objects[j]) => keys[i] = keys[j]
      /\ /\ {objects[i].type, objects[j].type} \subseteq {"INTEGER", "BOOLEAN"}
         /\ ~SameContent(objects[i], objects[j])
         => keys[i] # keys[j]

\* the keys of two distinct integers 1 and of the boolean true were taken
C19_Witness ==
  /\ Len(objects) = 3
  /\ Hashed = {1, 2, 3}
  /\ IsInteger(objects[1], 1)
  /\ IsInteger(objects[2], 1)
  /\ IsBoolean(objects[3], TRUE)
  /\ keys[1] = keys[2]
  /\ keys[3] # keys[1]

\* len was called and has returned or panicked
LenCalled == returned.type # "nil"

\* C20: called with one argument, len returns the integer length of a
\* string (0 for "", 4 for "four") or of an array, and for a value of any
\* other kind the error that names the type of the argument; called with
\* no argument or with more than one it returns the error "wrong number of
\* arguments".
C20_Len ==
  LenCalled =>
    IF Len(given) # 1
    THEN /\ returned.type = "ERROR"
         /\ returned.Message.format =
              "wrong number of arguments. got=%d, want=1"
    ELSE /\ given[1].type = "STRING" =>
              IsInteger(returned, Len(given[1].Value))
         /\ given[1].type = "ARRAY" =>
              IsInteger(returned, Len(given[1].Elements))
         /\ given[1].type \notin {"STRING", "ARRAY", "nil"} =>
              IsError(returned, "argument to 'len' not supported, got %s",
                      <<<<given[1].type>>>>)
         /\ given[1].type = "STRING" /\ given[1].Value = <<>> =>
              IsInteger(returned, 0)
         /\ given[1].type = "STRING" /\ given[1].Value = Four =>
              IsInteger(returned, 4)
         /\ given[1].type = "ARRAY" /\ Len(given[1].Elements) = 2 =>
              IsInteger(returned, 2)
         /\ given[1].type = "INTEGER" =>
              IsError(returned, "argument to 'len' not supported, got %s",
                      <<<<"INTEGER">>>>)

\* len has returned the number of elements of an array of two elements
C20_Witness ==
  /\ LenCalled
  /\ Len(given) = 1
  /\ given[1].type = "ARRAY"
  /\ Len(given[1].Elements) = 2
  /\ IsInteger(returned, 2)

\* the calls of fn on an array
ArrayCalls(fn) ==
  {i \in DOMAIN mem.calls :
     mem.calls[i].fn = fn /\ mem.calls[i].arguments[1].type = "ARRAY"}

\* the elements of the array at addr in the memory m
ElementsAt(m, addr) == Elements(m, m.objs[addr])

\* C21: push and tail do not change any array: every array that exists
\* before a call has the same elements after it, so the first array keeps
\* its elements through every sequence of calls; push(arr, x) returns an
\* array that did not exist before, whose elements are those of arr followed
\* by x, and tail(arr) of an array that is not empty returns one that did
\* not exist before, whose elements are those of arr without the first.
C21_PushAndTailDoNotMutate ==
  /\ \A i \in DOMAIN mem.calls :
       \A addr \in DOMAIN mem.calls[i].before.objs :
         ElementsAt(mem.calls[i].after, addr) =
           ElementsAt(mem.calls[i].before, addr)
  /\ \A i \in DOMAIN mem.calls :
       ElementsAt(mem, 1) = ElementsAt(mem.calls[i].before, 1)
  /\ \A i \in ArrayCalls("push") :
       /\ mem.calls[i].val.type = "ARRAY"
       /\ mem.calls[i].val.addr \notin DOMAIN mem.calls[i].before.objs
       /\ ElementsAt(mem.calls[i].after, mem.calls[i].val.addr) =
            Append(ElementsAt(mem.calls[i].before,
                              mem.calls[i].arguments[1].addr),
                   mem.calls[i].arguments[2])
  /\ \A i \in ArrayCalls("tail") :
       IF ElementsAt(mem.calls[i].before, mem.calls[i].arguments[1].addr) = <<>>
       THEN mem.calls[i].val.type = "NULL"
       ELSE /\ mem.calls[i].val.type = "ARRAY"
            /\ mem.calls[i].val.addr \notin DOMAIN mem.calls[i].before.objs
            /\ ElementsAt(mem.calls[i].after, mem.calls[i].val.addr) =
                 Tail(ElementsAt(mem.calls[i].before,
                                 mem.calls[i].arguments[1].addr))

\* twice an element was pushed on the first array, whose backing array has a
\* cell to spare, and then the tail of the first result was taken
C21_Witness ==
  /\ Len(mem.calls) = 3
  /\ mem.objs[1].cap > mem.objs[1].len
  /\ mem.calls[1].fn = "push" /\ mem.calls[1].arguments[1].type = "ARRAY"
  /\ mem.calls[1].arguments[1].addr = 1
  /\ mem.calls[2].fn = "push" /\ mem.calls[2].arguments[1].type = "ARRAY"
  /\ mem.calls[2].arguments[1].addr = 1
  /\ mem.calls[2].arguments[2].Value # mem.calls[1].arguments[2].Value
  /\ mem.calls[3].fn = "tail" /\ mem.calls[3].arguments[1].type = "ARRAY"
  /\ mem.calls[3].arguments[1].addr = 2
  /\ Len(ElementsAt(mem, 1)) = 2
  /\ ElementsAt(mem, 4) = Tail(ElementsAt(mem, 2))

\* the function literals among the statements of the program
FunctionLiterals ==
  {i \in DOMAIN program :
     /\ program[i].kind = "ExpressionStatement"
     /\ program[i].Expression.kind = "FunctionLiteral"}

\* the lexemes typed in the place of the parameter list
ParameterUnits ==
  {i \in DOMAIN units : i > 1 /\ units[i] # FunctionClose}

\* C22: a line fn( ... ) { } in whose parameter list a lexeme that is not
\* an identifier and not a comma stands has, once parsed, a diagnostic and
\* no function-literal node; and every parameter of a function-literal node
\* of a program parsed without diagnostics comes from an IDENTIFIER token.
C22_ParametersAreIdentifiers ==
  Parsed =>
    /\ (\E i \in ParameterUnits : units[i] \in {<<"1">>, <<"t","r","u","e">>})
         => p.errors # <<>> /\ FunctionLiterals = {}
    /\ p.errors = <<>> =>
         \A i \in FunctionLiterals :
           \A k \in DOMAIN program[i].Expression.Parameters :
             program[i].Expression.Parameters[k].Token.Type = "IDENTIFIER"

\* the cursor of the Lexer l has passed the last character of the input
PastEnd(l) == l.position >= Len(l.input)

\* the Lexer after the call i of NextToken
LexerAfter(i) == IF i = Len(tokens) THEN lexer ELSE tokens[i + 1].before

\* C23: a call of NextToken on a Lexer whose cursor has passed the last
\* character of the input returns the token EOF with an empty literal and
\* leaves the cursor past the last character, so every later call returns
\* EOF as well.
C23_EndOfInputIsAbsorbing ==
  \A i \in DOMAIN tokens :
    PastEnd(tokens[i].before) =>
      /\ tokens[i].tok = NewToken("EOF", <<>>)
      /\ PastEnd(LexerAfter(i))
      /\ \A j \in i..Len(tokens) : tokens[j].tok.Type = "EOF"

\* NextToken was called three times or more past the end of a text that is
\* not empty
C23_Witness ==
  /\ Len(tokens) = MaxTokens
  /\ units # <<>>
  /\ tokens[1].tok.Type # "EOF"
  /\ Cardinality({i \in DOMAIN tokens : PastEnd(tokens[i].before)}) >= 3

\* the 1-based place of the first character at or after the cursor of l
\* that is not white space, Len(l.input) + 1 when there is none
TokenStart(l) ==
  LET places == {k \in (l.position + 1)..Len(l.input) : l.input[k] # " "}
  IN  IF places = {} THEN Len(l.input) + 1
      ELSE CHOOSE k \in places : \A k2 \in places : k <= k2

\* the places of the quotes after the place from
QuotesAfter(l, from) == {k \in (from + 1)..Len(l.input) : l.input[k] = "\""}

\* the calls of NextToken that meet an opening quote
StringCalls ==
  {i \in DOMAIN tokens :
     /\ TokenStart(tokens[i].before) <= Len(tokens[i].before.input)
     /\ tokens[i].before.input[TokenStart(tokens[i].before)] = "\""}

\* C24: a call of NextToken that meets an opening quote returns, when no
\* quote follows it in the input, the token EOF, and when one follows, a
\* STRING token whose literal is the characters between the opening quote
\* and the first quote after it (none for "").
C24_UnterminatedStringIsEOF ==
  \A i \in StringCalls :
    LET Closed(l, open) ==
          IF QuotesAfter(l, open) = {}
          THEN tokens[i].tok = NewToken("EOF", <<>>)
          ELSE /\ tokens[i].tok.Type = "STRING"
               /\ \E close \in QuotesAfter(l, open) :
                    /\ \A k \in QuotesAfter(l, open) : close <= k
                    /\ tokens[i].tok.Literal =
                         SubSeq(l.input, open + 1, close - 1)
    IN  Closed(tokens[i].before, TokenStart(tokens[i].before))

\* the empty string was scanned as a STRING token without characters and
\* then an opening quote without closing quote as EOF
C24_Witness ==
  /\ units = <<EmptyString, Quote, <<"a">>>>
  /\ Len(tokens) >= 2
  /\ tokens[1].tok = NewToken("STRING", <<>>)
  /\ StringCalls = {1, 2}
  /\ tokens[2].tok.Type = "EOF"

\* the environments when the line i of the session began
EnvsBefore(i) == IF i = 1 THEN <<NewEnvironment>> ELSE session[i - 1].envs

\* two lists of environments hold the same environments
SameEnvs(a, b) ==
  /\ Len(a) = Len(b)
  /\ \A e \in DOMAIN a : SameBindings(a[e], b[e])

\* the lines of the session that are done and have bound x, with the value
\* they have bound it to
BindersOfX ==
  {i \in DOMAIN session :
     session[i].line \in {LetX \o <<" ">>, LetXTwo \o <<" ">>}}

ValueBoundBy(i) == IF session[i].line = LetX \o <<" ">> THEN 1 ELSE 2

\* C25: the lines of a session are evaluated in one environment: a line
\* that reads x yields the value that the last line before it that let x
\* has bound, whatever lines came in between, and an error when no line
\* has bound x; a line with a diagnostic is not evaluated and leaves every
\* environment as it was when the line began, also when it holds a well
\* formed let-statement in front of the malformed one.
C25_OneEnvironmentPerSession ==
  /\ \A i \in DOMAIN session :
       session[i].errors # <<>> =>
         /\ SameEnvs(EnvsBefore(i), session[i].envs)
         /\ session[i].result.type = "nil"
  /\ pc \in {"parsing", "parsed"} =>
       SameEnvs(EnvsBefore(Len(session) + 1), heap.envs)
  /\ pc = "evaluated" => p.errors = <<>>
  /\ pc = "evaluated" /\ units = <<ReadX>> =>
       IF BindersOfX = {}
       THEN IsError(result, "identifier not found: %s", <<<<"x">>>>)
       ELSE \E i \in BindersOfX :
              /\ \A j \in BindersOfX : j <= i
              /\ IsInteger(result, ValueBoundBy(i))
  /\ Len(heap.envs) = 1

\* let x = 1; was evaluated, then a line with let x = 2; and a malformed
\* let-statement was refused, and the third line reads 1 for x
C25_Witness ==
  /\ Len(session) = 2
  /\ session[1].line = LetX \o <<" ">>
  /\ session[2].line = LetXTwoBadLet \o <<" ">>
  /\ session[2].errors # <<>>
  /\ units = <<ReadX>>
  /\ pc = "evaluated"
  /\ IsInteger(result, 1)

\* C26: ParseProgram returns for every source text: the parser never enters
\* a loop that it does not leave, also when the text ends inside a block.
C26_ParseProgramTerminates == pc # "hung" /\ ~p.hang

\* the name that a let-statement has bound the function fn to
NameOfFunction(fn) ==
  heap.lets[CHOOSE j \in DOMAIN heap.lets :
              /\ heap.lets[j].val.type = "FUNCTION"
              /\ heap.lets[j].val.addr = fn.addr].name

\* the names of the functions applied, in the order of their application
AppliedNames == [i \in DOMAIN heap.calls |-> NameOfFunction(heap.calls[i].fn)]

\* the names of the functions that the call statement u applies, in order,
\* when nothing has failed before it
NamesAppliedBy(u) ==
  CASE u = CallBoth -> <<<<"u">>, <<"v">>, <<"t">>>>
    [] u = CallSecondFails -> <<<<"u">>>>
    [] u = CallMiddleFails -> <<<<"u">>>>
    [] u = CalleeIsCall -> <<<<"w">>, <<"v">>, <<"u">>, <<"t">>>>
    [] OTHER -> <<>>

\* the call statement u yields an error-value
CallFails(u) == u \notin {CallBoth, CalleeIsCall}

\* the applications that the call statements of the line make up to the
\* first one that fails
RECURSIVE NamesAppliedFrom(_)
NamesAppliedFrom(i) ==
  IF i > Len(units) THEN <<>>
  ELSE IF CallFails(units[i]) THEN NamesAppliedBy(units[i])
  ELSE NamesAppliedBy(units[i]) \o NamesAppliedFrom(i + 1)

\* C27: a call evaluates its callee, then its arguments from left to right,
\* and stops at the first of them that yields an error-value: the functions
\* applied by a line are, in this order, those that the callee and the
\* arguments in front of the first failing one apply, the function called
\* is applied only when nothing has failed, and the error-value of the line
\* names nope, the first name without binding, never none to its right.
C27_CallOrderAndShortCircuit ==
  pc = "evaluated" =>
    /\ AppliedNames = NamesAppliedFrom(2)
    /\ IF \E i \in 2..Len(units) : CallFails(units[i])
       THEN IsError(result, "identifier not found: %s", <<<<"n","o","p","e">>>>)
       ELSE /\ LastUnit = CallBoth => IsInteger(result, 1)
            /\ LastUnit = CalleeIsCall => IsInteger(result, 2)

\* t(u(), nope, v()); was evaluated: u was applied, v and t were not
C27_Witness ==
  /\ pc = "evaluated"
  /\ units = <<CallDefinitions, CallMiddleFails>>
  /\ AppliedNames = <<<<"u">>>>
  /\ isError(result)

\* the value of a that the statement u binds in the environment it is
\* evaluated in, 0 when it binds none there
ValueOfA(u) ==
  CASE u = IfLetA -> 1
    [] u = ElseLetA -> 2
    [] u = NestedLetA -> 4
    [] OTHER -> 0

\* the places of the statements in front of the last one that bind a at the
\* top level
TopLevelBindersOfA ==
  {i \in 1..(Len(units) - 1) : ValueOfA(units[i]) # 0}

\* C28: no environment is created but by the application of a function:
\* there is one environment more than there are applications, and each let
\* executed in the block of a conditional binds its name in the environment
\* that the conditional is evaluated in, where it is read after the
\* conditional: a; after if (true) { let a = 1; } yields 1, the body of c
\* reads the 3 that its conditional has bound, and that 3 is bound in the
\* environment of the application, not in the one of the session.
C28_BlocksShareTheEnvironment ==
  /\ Len(heap.envs) = 1 + Cardinality(Applications)
  /\ \A j \in DOMAIN heap.lets :
       heap.lets[j].name = <<"a">> =>
         IF IsInteger(heap.lets[j].val, 3)
         THEN \E i \in Applications : heap.lets[j].env = CallEnv(heap.calls[i])
         ELSE heap.lets[j].env = 1
  /\ \A i \in ApplicationsOf(<<"c">>) : IsInteger(heap.calls[i].val, 3)
  /\ pc = "evaluated" /\ LastUnit = ReadA =>
       IF TopLevelBindersOfA = {}
       THEN IsError(result, "identifier not found: %s", <<<<"a">>>>)
       ELSE \E i \in TopLevelBindersOfA :
              /\ \A k \in TopLevelBindersOfA : k <= i
              /\ IsInteger(result, ValueOfA(units[i]))

\* a was bound in the nested blocks of two conditionals and read after them
C28_Witness ==
  /\ pc = "evaluated"
  /\ units = <<NestedLetA, ReadA>>
  /\ IsInteger(result, 4)
  /\ Len(heap.envs) = 1

\* the truth value of the comparisons of the first n units of the line,
\* which group to the left
RECURSIVE TruthOfLine(_)
TruthOfLine(n) ==
  IF n = 1 THEN units[1] \in TrueExpressions
  ELSE IF units[n - 1] = <<"=","=">>
  THEN TruthOfLine(n - 2) = (units[n] \in TrueExpressions)
  ELSE TruthOfLine(n - 2) # (units[n] \in TrueExpressions)

\* C29: a boolean that the evaluator yields, from a literal, from !, <, >,
\* == or !=, is the object TRUE or the object FALSE, so == and != on two
\* booleans, which compare the two objects, yield what the comparison of
\* their truth values yields: true == true is true, true == false is false,
\* and so for !false == (1 < 2) and all the other pairs.
C29_BooleansAreInterned ==
  pc = "evaluated" /\ Len(units) % 2 = 1 =>
    /\ result.type = "BOOLEAN"
    /\ result = (IF result.Value THEN ObjTRUE ELSE ObjFALSE)
    /\ result.Value = TruthOfLine(Len(units))

\* !false == (1 < 2) was evaluated to the object TRUE
C29_Witness ==
  /\ pc = "evaluated"
  /\ units = <<NotFalse, <<"=","=">>, OneLessTwo>>
  /\ result = ObjTRUE

\* the environments of the heap at the moments the history has recorded:
\* before and after every application, before and after every binding, and
\* now
EnvsBeforeCall == [i \in DOMAIN heap.calls |-> heap.calls[i].before]
EnvsAfterCall == [i \in DOMAIN heap.calls |-> heap.calls[i].after]
EnvsBeforeLet == [j \in DOMAIN heap.lets |-> heap.lets[j].mid]
EnvsAfterLet == [j \in DOMAIN heap.lets |-> heap.lets[j].after]
EnvsRecorded ==
  EnvsBeforeCall \o EnvsAfterCall \o EnvsBeforeLet \o EnvsAfterLet
    \o <<heap.envs>>

\* the applications that were going on when the application i began: the
\* later entries of the history whose environments i's own one follows
Enclosing(i) ==
  {k \in DOMAIN heap.calls :
     /\ k > i
     /\ Len(heap.calls[k].before) < Len(heap.calls[i].before)}

\* C30: the outer link of every environment is the nil reference or an
\* environment created before it, and is the same at every moment the
\* history has recorded; so the chain of an environment e has at most e
\* environments and ends in one without outer link, and Get finds a name
\* exactly when an environment of the chain binds it, also when the closure
\* c, stored in the environment it captured, calls itself: c(2) yields 0
\* after three applications of c.
C30_OuterLinksAreAcyclic ==
  /\ \A k \in DOMAIN EnvsRecorded :
       \A e \in DOMAIN EnvsRecorded[k] :
         /\ EnvsRecorded[k][e].outer \in 0..(e - 1)
         /\ e \in DOMAIN heap.envs
         /\ EnvsRecorded[k][e].outer = heap.envs[e].outer
  /\ \A e \in DOMAIN heap.envs :
       /\ Len(Chain(e)) <= e
       /\ heap.envs[Chain(e)[Len(Chain(e))]].outer = 0
       /\ \A n \in SomeNames :
            Get(heap.envs, e, n).ok
              <=> \E i \in DOMAIN Chain(e) :
                    n \in DOMAIN heap.envs[Chain(e)[i]].store
  /\ pc = "evaluated" /\ units = <<LetCount, CountTwo>> =>
       /\ IsInteger(result, 0)
       /\ Cardinality(ApplicationsOf(<<"c">>)) = 3

\* c, stored in the environment it captured, has called itself from the
\* body of its own application, and the chain of the innermost environment
\* was followed to the environment of the session
C30_Witness ==
  /\ pc = "evaluated"
  /\ units = <<LetCount, CountTwo>>
  /\ IsInteger(result, 0)
  /\ heap.envs[1].store[<<"c">>].type = "FUNCTION"
  /\ DefiningEnv(heap.envs[1].store[<<"c">>]) = 1
  /\ \E i \in ApplicationsOf(<<"c">>) :
       /\ Enclosing(i) # {}
       /\ Chain(CallEnv(heap.calls[i])) = <<CallEnv(heap.calls[i]), 1>>

=============================================================================
